---------------------------- MODULE Spec2Model ----------------------------
(***************************************************************************)
(* RoboCam: the GCode motion controller (serial request/response protocol, *)
(* listener thread, position tracking) as a state machine.                 *)
(*                                                                         *)
(* Threads: the GUI thread and the experiment-loop thread call the public  *)
(* methods of one GCode object; the listener thread drains the serial      *)
(* port; the firmware answers on the other end of the wire.  Every shared  *)
(* attribute access of the Python code is one atomic step.                 *)
(*                                                                         *)
(* Beside it: the pathfinder window (four captured corners, the snake and  *)
(* raster paths generated from them) and the experiment runner (the run    *)
(* loop that walks a path until its duration is exceeded, started, paused, *)
(* resumed and stopped from the GUI thread; each start() launches a thread *)
(* of its own).                                                            *)
(***************************************************************************)
EXTENDS Integers, Sequences, FiniteSets, TLC

VARIABLES
    variant,              \* which GCode class is running: "claude9jan" or "claude8jan"
    printer_on_serial,    \* "open" (a serial.Serial handle), "dead" (a handle
                          \* whose device is gone: its calls raise), "none" (None)
    connected,            \* self.connected
    waiting_for_response, \* self.waiting_for_response
    last_response,        \* self.last_response: a line, or None
    current_position,     \* self.current_position
    target_position,      \* self.target_position
    is_moving_flag,       \* self._is_moving
    settings,             \* self.feedrate, self.acceleration, self.jerk
    lpc, lresp,           \* listener thread: position ("exit": it has left its
                          \* loop, "raised": it has ended with an exception),
                          \* and its local `response`
    inbuf,                \* the serial port's input buffer (lines not yet read)
    fwq,                  \* firmware: commands received and not yet answered
    th,                   \* per calling thread: the frame of the method it runs
    corners,              \* PathfinderGUI.corners
    path_points,          \* PathfinderGUI.path_points
    pf_last,              \* the last PathfinderGUI method called, and whether
                          \* it ended without the error dialog
    is_running,           \* Experiment.is_running
    is_paused,            \* Experiment.is_paused
    current_iteration,    \* Experiment.current_iteration
    ex,                   \* per experiment thread: its place in _experiment_loop
                          \* and _execute_iteration, the locals of the latter
                          \* (path: the list the for loop iterates over),
                          \* pin: pause() was called during the visit last begun,
                          \* run: which launch it is, cause: what made it fail,
                          \* halt: stop() was called since it was launched
    exlog,                \* what the runs have done: moves commanded, frames
                          \* captured, files saved, progress and errors
                          \* reported, loops left
    start_time,           \* Experiment.start_time
    now,                  \* time.time(), as the run loop reads it
    api,                  \* the public methods of Experiment called so far:
                          \* the last one, how many, how many of them launched
                          \* a loop, and stale: a run has ended and configure
                          \* was not called since
    status,               \* the status callback: times invoked, last text
    cfg,                  \* Experiment.path_points, pause_time, duration,
                          \* save_folder, file_prefix
    hardware,             \* Experiment.camera and Experiment.gcode are set
    total_iterations,     \* Experiment.total_iterations
    disk,                 \* experiment_config.json: times written, content
    conf_last,            \* the last configure call: whether it raised, and
                          \* what it told the error callback
    gui                   \* ExperimentGUI: is_running, the three buttons
                          \* (enabled or not) and the clicks handled so far

\* the GCode controller, its threads and the wire
gvars == <<variant, settings, printer_on_serial, connected, waiting_for_response,
           last_response, current_position, target_position, is_moving_flag,
           lpc, lresp, inbuf, fwq, th>>

\* the pathfinder window
pfvars == <<corners, path_points, pf_last>>

\* the experiment runner
exvars == <<is_running, is_paused, current_iteration, ex, exlog, start_time,
            now, api, status>>

\* the runner's configuration and the experiment window
cfvars == <<cfg, hardware, total_iterations, disk, conf_last, gui>>

vars == <<gvars, pfvars, exvars, cfvars>>

---------------------------------------------------------------------------
(* Bounds of the model *)

\* lines the serial input buffer can hold
MaxBuf == 1
\* commands the firmware can hold unanswered
MaxPending == 1
\* seconds by which one Tick advances the clock
TickStep == 10
\* well visits the runs may begin, passes a run may complete
MaxVisits == 3
\* calls of the public methods of Experiment
MaxCalls == 3
\* the clock's last reading
MaxNow == 2
\* clicks on the buttons of the experiment window
MaxClicks == 3

(* Program constants *)

\* GCODE_SETTINGS['FEEDRATE'], ['ACCELERATION'], ['JERK']: the defaults of
\* GCode.__init__
FEEDRATE == 2000
ACCELERATION == 5
JERK == 1
\* GCODE_SETTINGS['TIMEOUT']['HOMING']
HOMING == 30
\* GCODE_SETTINGS['TIMEOUT']['GENERAL']
GENERAL == 10

Threads == {"gui", "exp", "exp2"}
\* the threads that jog, home and move on their own account
Callers == {"gui", "exp"}
Axes == {"X", "Y", "Z"}

---------------------------------------------------------------------------
(* Text.  A string is a sequence of one-character strings. *)

Upper == <<"A","B","C","D","E","F","G","H","I","J","K","L","M",
           "N","O","P","Q","R","S","T","U","V","W","X","Y","Z">>
LowerCh == <<"a","b","c","d","e","f","g","h","i","j","k","l","m",
             "n","o","p","q","r","s","t","u","v","w","x","y","z">>

\* str.lower(), one character
LowerChar(c) ==
    IF \E i \in 1..26 : Upper[i] = c
    THEN LowerCh[CHOOSE i \in 1..26 : Upper[i] = c]
    ELSE c

\* str.lower()
Lower(s) == [i \in 1..Len(s) |-> LowerChar(s[i])]

\* `sub in s`
Contains(sub, s) ==
    \E i \in 1..(Len(s) - Len(sub) + 1) : SubSeq(s, i, i + Len(sub) - 1) = sub

\* 'ok' in response.lower()
HasOk(s) == Contains(<<"o","k">>, Lower(s))
\* 'error' in response.lower()
HasError(s) == Contains(<<"e","r","r","o","r">>, Lower(s))

\* s.split(sep) for a one-character separator: empty pieces are kept
RECURSIVE SplitOn(_, _)
SplitOn(s, sep) ==
    IF \A i \in 1..Len(s) : s[i] # sep
    THEN <<s>>
    ELSE LET i == CHOOSE k \in 1..Len(s) :
                      /\ s[k] = sep
                      /\ \A j \in 1..(k - 1) : s[j] # sep
         IN  <<SubSeq(s, 1, i - 1)>> \o SplitOn(SubSeq(s, i + 1, Len(s)), sep)

\* s.split(): split on whitespace, empty pieces dropped
Words(s) == SelectSeq(SplitOn(s, " "), LAMBDA w : w # <<>>)

Digits == <<"0","1","2","3","4","5","6","7","8","9">>
IsDigit(c) == \E d \in 1..10 : Digits[d] = c
DigitVal(c) == (CHOOSE d \in 1..10 : Digits[d] = c) - 1

RECURSIVE NatVal(_)
NatVal(s) == IF s = <<>> THEN 0
             ELSE 10 * NatVal(SubSeq(s, 1, Len(s) - 1)) + DigitVal(s[Len(s)])

IsNat(s) == s # <<>> /\ \A i \in 1..Len(s) : IsDigit(s[i])

\* float(value), for the texts [-]digits and [-]digits.0*; other texts are
\* a ValueError here (the model's lines carry whole millimetres only)
FloatOk(v) ==
    LET u == IF v # <<>> /\ v[1] = "-" THEN Tail(v) ELSE v
        p == SplitOn(u, ".")
    IN  /\ Len(p) \in {1, 2}
        /\ IsNat(p[1])
        /\ Len(p) = 2 => \A i \in 1..Len(p[2]) : p[2][i] = "0"
FloatVal(v) ==
    IF v[1] = "-" THEN 0 - NatVal(SplitOn(Tail(v), ".")[1])
    ELSE NatVal(SplitOn(v, ".")[1])

---------------------------------------------------------------------------
(* Lines of the firmware *)

L_ok    == <<"o","k">>
L_OK    == <<"O","K">>
L_error == <<"E","r","r","o","r">>
\* an error report whose text happens to contain "ok"
L_errtoken == <<"E","r","r","o","r",":","t","o","k","e","n">>
\* a position report
L_pos   == <<"X",":","-","1"," ","Y",":","0"," ","Z",":","2">>
\* the position report that answers M114
L_report == <<"X",":","2"," ","Y",":","0"," ","Z",":","1">>

\* the lines that end the firmware's handling of a command
FinalLines == {L_ok, L_OK, L_error, L_errtoken}
\* the lines the firmware emits on its own (status, position reports)
ChatterLines == {L_pos}

\* A line in transit carries the command it replies to: the calling thread
\* while that thread's send_gcode call is still open, "stale" once that call
\* has returned, "none" for unsolicited output.
Line(txt, re) == [some |-> TRUE, txt |-> txt, re |-> re]
None == [some |-> FALSE, txt |-> <<>>, re |-> "none"]

Retag(l, t) == IF l.re = t THEN [l EXCEPT !.re = "stale"] ELSE l
RetagSeq(q, t) == [i \in 1..Len(q) |-> Retag(q[i], t)]
RetagQ(q, t) == [i \in 1..Len(q) |->
                    IF q[i].re = t THEN [q[i] EXCEPT !.re = "stale"] ELSE q[i]]

---------------------------------------------------------------------------
(* Positions and commands *)

Pos(x, y, z) == [a \in Axes |-> CASE a = "X" -> x [] a = "Y" -> y [] OTHER -> z]
Origin == Pos(0, 0, 0)

\* the (x, y, z) a caller may request
Requests == {Pos(0 - 1, 1, 0), Pos(2, 0 - 1, 1)}

\* max(0, v)
Max0(v) == IF v > 0 THEN v ELSE 0
\* the clamping left out: the coordinates are used as requested
ClampNothing(p) == p
\* move_xyz, lines 152-154
Clamp(p) == [a \in Axes |-> Max0(p[a])]

\* a command: its code, its X, Y, Z words and its F word (0: none)
Cmd(code, arg) == [code |-> code, arg |-> arg, feed |-> 0]
NoCmd == Cmd("", Origin)

\* command.startswith('G28') selects the budget
Timeout(c) == IF c.code = "G28" THEN HOMING ELSE GENERAL

\* get_current_position, lines 287-298: the position parsed from a response,
\* or "ValueError", or "short" when fewer than three axes were found
ParsePart(part) ==
    LET kv == SplitOn(part, ":")
    IN  IF ~ Contains(<<":">>, part) THEN [r |-> "skip"]
        ELSE IF Len(kv) # 2 THEN [r |-> "ValueError"]
        ELSE IF ~ (Len(kv[1]) = 1 /\ kv[1][1] \in Axes) THEN [r |-> "skip"]
        ELSE IF ~ FloatOk(kv[2]) THEN [r |-> "ValueError"]
        ELSE [r |-> "set", axis |-> kv[1][1], val |-> FloatVal(kv[2])]

ParsePosition(txt) ==
    LET parts == Words(txt)
        res == [i \in 1..Len(parts) |-> ParsePart(parts[i])]
        \* the first ValueError aborts the loop
        bad == \E i \in 1..Len(parts) : res[i].r = "ValueError"
        found == {res[i].axis : i \in {j \in 1..Len(parts) : res[j].r = "set"}}
        last(a) == CHOOSE i \in 1..Len(parts) :
                       /\ res[i].r = "set" /\ res[i].axis = a
                       /\ \A j \in (i + 1)..Len(parts) :
                              ~ (res[j].r = "set" /\ res[j].axis = a)
    IN  IF bad THEN [r |-> "ValueError", pos |-> Origin]
        ELSE IF Cardinality(found) # 3 THEN [r |-> "short", pos |-> Origin]
        ELSE [r |-> "pos", pos |-> [a \in Axes |-> res[last(a)].val]]

---------------------------------------------------------------------------
(* The frame of a calling thread *)

\* the methods each thread calls: the GUI thread the jog and home controls
\* (gcode_gui.py) and the public get_current_position, the experiment loop
\* move_xyz (experiment.py:261)
CallerOps(t) == IF t \in {"exp", "exp2"} THEN {"move"} ELSE {"move", "home", "getpos"}

AllOps == {"move", "home", "getpos"}

\* the methods the running class has
ClassOps == IF variant = "claude9jan" THEN {"move", "home", "getpos"}
            ELSE {"move", "home"}

\* op, step: the method and the send_gcode call it has reached; pc: the
\* place inside send_gcode; cmd, elapsed, response, ret: send_gcode's locals
\* and result; req: the requested (x, y, z); opret, rpos: what the method
\* returned.  outcome, written (the commands this method has written to the
\* transport) and ignored (this call has examined a line that did not resolve
\* it) record what happened; moving is what the method's last is_moving call
\* returned.
Fresh == [op |-> "none", step |-> "idle", pc |-> "out", cmd |-> NoCmd,
          req |-> Origin, elapsed |-> 0, response |-> None, ret |-> FALSE,
          outcome |-> "none", written |-> <<>>, opret |-> "none",
          rpos |-> Origin, ignored |-> FALSE, moving |-> "none"]

InSend(t) == th[t].pc \in {"prep", "write", "poll", "read", "clr"}
\* the command has been written and the call is waiting for its resolution
Awaiting(t) == th[t].pc \in {"poll", "read", "clr"}

\* send_gcode, lines 100-103: entered with command c by a thread in frame f
EnterSend(f, c) ==
    IF printer_on_serial = "none"
    THEN [f EXCEPT !.cmd = c, !.pc = "ret", !.ret = FALSE, !.outcome = "NoPort"]
    ELSE [f EXCEPT !.cmd = c, !.pc = "prep", !.ret = FALSE, !.outcome = "none",
                   !.elapsed = 0, !.response = None, !.ignored = FALSE]

\* move_xyz, line 155
MoveCommandDefaultFeed(p) == [Cmd("G1", Clamp(p)) EXCEPT !.feed = FEEDRATE]
MoveCommand(p) == [Cmd("G1", Clamp(p)) EXCEPT !.feed = settings.feedrate]

\* a method is called: move_xyz (lines 150-159), home_all_axes (178-182),
\* get_current_position (278-282), up to the first statement of send_gcode
Call(t, ops, reqs) ==
    /\ th[t].step \in {"idle", "done"}
    /\ \E o \in CallerOps(t) \cap ClassOps \cap ops, r \in reqs :
         LET f == [Fresh EXCEPT !.op = o,
                                !.req = IF o = "move" THEN r ELSE Origin,
                                !.step = CASE o = "move" -> "g1"
                                           [] o = "home" -> "g28"
                                           [] OTHER -> "m114"]
             c == CASE o = "move" -> MoveCommand(r)
                    [] o = "home" -> Cmd("G28", Origin)
                    [] OTHER -> Cmd("M114", Origin)
         IN  /\ th' = [th EXCEPT ![t] = EnterSend(f, c)]
             /\ target_position' =
                  IF o = "move" /\ variant = "claude9jan"
                  THEN Clamp(r) ELSE target_position
    /\ UNCHANGED <<pfvars, cfvars, exvars, variant, settings, printer_on_serial, connected, waiting_for_response,
                   last_response, current_position, is_moving_flag,
                   lpc, lresp, inbuf, fwq>>

\* the values the jog window hands to the setters
Feedrates == {FEEDRATE, 1000}
Rates == {ACCELERATION, 9}

\* set_feedrate, lines 190-194: the value is stored, nothing is sent
SetFeedrate(t) ==
    /\ th[t].step \in {"idle", "done"}
    /\ \E v \in Feedrates : settings' = [settings EXCEPT !.feedrate = v]
    /\ th' = [th EXCEPT ![t] = [Fresh EXCEPT !.op = "set_feedrate",
                                             !.step = "done",
                                             !.opret = "None"]]
    /\ UNCHANGED <<pfvars, cfvars, exvars, variant, printer_on_serial,
                   connected, waiting_for_response, last_response,
                   current_position, target_position, is_moving_flag,
                   lpc, lresp, inbuf, fwq>>

\* set_acceleration, lines 196-202, up to the first statement of send_gcode
SetAcceleration(t) ==
    /\ th[t].step \in {"idle", "done"}
    /\ \E v \in Rates :
         /\ settings' = [settings EXCEPT !.acceleration = v]
         /\ th' = [th EXCEPT ![t] =
                     EnterSend([Fresh EXCEPT !.op = "set_acceleration",
                                             !.step = "m201"],
                               Cmd("M201", Pos(v, v, v)))]
    /\ UNCHANGED <<pfvars, cfvars, exvars, variant, printer_on_serial,
                   connected, waiting_for_response, last_response,
                   current_position, target_position, is_moving_flag,
                   lpc, lresp, inbuf, fwq>>

\* set_jerk, lines 204-210, up to the first statement of send_gcode
SetJerk(t) ==
    /\ th[t].step \in {"idle", "done"}
    /\ \E v \in Rates :
         /\ settings' = [settings EXCEPT !.jerk = v]
         /\ th' = [th EXCEPT ![t] =
                     EnterSend([Fresh EXCEPT !.op = "set_jerk",
                                             !.step = "m205"],
                               Cmd("M205", Pos(v, v, v)))]
    /\ UNCHANGED <<pfvars, cfvars, exvars, variant, printer_on_serial,
                   connected, waiting_for_response, last_response,
                   current_position, target_position, is_moving_flag,
                   lpc, lresp, inbuf, fwq>>

---------------------------------------------------------------------------
(* send_gcode *)

\* lines 107-109: reset_input_buffer(); last_response = None;
\* waiting_for_response = True
SgPrep(t) ==
    /\ th[t].pc = "prep"
    /\ printer_on_serial = "open"
    /\ inbuf' = <<>>
    /\ last_response' = None
    /\ waiting_for_response' = TRUE
    /\ th' = [th EXCEPT ![t].pc = "write"]
    /\ UNCHANGED <<pfvars, cfvars, exvars, variant, settings, printer_on_serial, connected, current_position,
                   target_position, is_moving_flag, lpc, lresp, fwq>>

\* the firmware takes a command; with its queue full the oldest is lost
Receive(q, e) == IF Len(q) < MaxPending THEN Append(q, e)
                 ELSE Append(Tail(q), e)

\* a command as the firmware holds it: the call it came from, and whether
\* a position report is due before the line that ends it (M114)
Pending(t, c) == [re |-> t, report |-> c.code = "M114"]

\* lines 114-123: the command is written and the clock started
SgWrite(t) ==
    /\ th[t].pc = "write"
    /\ printer_on_serial = "open"
    /\ fwq' = Receive(fwq, Pending(t, th[t].cmd))
    /\ th' = [th EXCEPT ![t].pc = "poll", ![t].elapsed = 0,
                        ![t].written = Append(@, th[t].cmd)]
    /\ UNCHANGED <<pfvars, cfvars, exvars, variant, settings, printer_on_serial, connected, waiting_for_response,
                   last_response, current_position, target_position,
                   is_moving_flag, lpc, lresp, inbuf>>

\* A send_gcode call of thread t returns r: waiting_for_response = False.
\* Whatever still answers its command is from now on a reply to an earlier
\* command.  lr is the value last_response has at that moment.
Return(t, r, out, lr) ==
    /\ waiting_for_response' = FALSE
    /\ th' = [th EXCEPT ![t].pc = "ret", ![t].ret = r, ![t].outcome = out]
    /\ last_response' = Retag(lr, t)
    /\ lresp' = Retag(lresp, t)
    /\ inbuf' = RetagSeq(inbuf, t)
    /\ fwq' = RetagQ(fwq, t)
    /\ UNCHANGED <<pfvars, cfvars, exvars, variant, settings, connected, current_position,
                   target_position, is_moving_flag, lpc>>

\* reset_input_buffer() called outside the try: its exception reaches the
\* caller
SgPrepFailRaises(t) ==
    /\ th[t].pc = "prep"
    /\ printer_on_serial # "open"
    /\ Return(t, FALSE, "Raised", last_response)
    /\ UNCHANGED printer_on_serial

\* lines 107 and 144-148: reset_input_buffer() raises, on a handle whose
\* device is gone or on None (the port was closed after line 100)
SgPrepFail(t) ==
    /\ th[t].pc = "prep"
    /\ printer_on_serial # "open"
    /\ Return(t, FALSE, "Exception", last_response)
    /\ UNCHANGED printer_on_serial

\* lines 114 and 144-148: the write raises: the device is gone from now on
\* (or the port was closed in the meantime)
SgWriteFail(t) ==
    /\ th[t].pc = "write"
    /\ Return(t, FALSE, "Exception", last_response)
    /\ printer_on_serial' =
          IF printer_on_serial = "none" THEN "none" ELSE "dead"

\* line 124, the loop condition fails; lines 139-142
SgTimeout(t) ==
    /\ th[t].pc = "poll"
    /\ ~ (th[t].elapsed < Timeout(th[t].cmd))
    /\ Return(t, FALSE, "TimedOut", last_response)
    /\ UNCHANGED printer_on_serial

\* lines 124-125: within the budget, a response is there
SgSee(t) ==
    /\ th[t].pc = "poll"
    /\ th[t].elapsed < Timeout(th[t].cmd)
    /\ last_response.some
    /\ th' = [th EXCEPT ![t].pc = "read"]
    /\ UNCHANGED <<pfvars, cfvars, exvars, variant, settings, printer_on_serial, connected, waiting_for_response,
                   last_response, current_position, target_position,
                   is_moving_flag, lpc, lresp, inbuf, fwq>>

\* line 126: response = self.last_response
SgRead(t) ==
    /\ th[t].pc = "read"
    /\ th' = [th EXCEPT ![t].pc = "clr", ![t].response = last_response]
    /\ UNCHANGED <<pfvars, cfvars, exvars, variant, settings, printer_on_serial, connected, waiting_for_response,
                   last_response, current_position, target_position,
                   is_moving_flag, lpc, lresp, inbuf, fwq>>

\* a line without "ok" fails the command instead of being ignored
ClassifyOkOrFail(txt) == IF HasOk(txt) THEN "ok" ELSE "error"
\* lines 129-136: what a response line does to the command in flight
Classify(txt) ==
    IF HasOk(txt) THEN "ok"
    ELSE IF HasError(txt) THEN "error"
    ELSE "other"

\* lines 127-137: last_response = None, then the line is examined.  A
\* response that is None by now (another call has taken it) raises in
\* response.lower(), lines 144-148.
SgExamine(t) ==
    /\ th[t].pc = "clr"
    /\ IF ~ th[t].response.some
       THEN Return(t, FALSE, "Exception", None)
       ELSE LET k == Classify(th[t].response.txt)
            IN  CASE k = "ok" -> Return(t, TRUE, "Acknowledged", None)
                  [] k = "error" -> Return(t, FALSE, "Failed", None)
                  [] OTHER ->
                       /\ last_response' = None
                       /\ th' = [th EXCEPT ![t].pc = "poll",
                                           ![t].ignored = TRUE]
                       /\ UNCHANGED <<pfvars, cfvars, exvars, variant, settings, connected,
                                      waiting_for_response, current_position,
                                      target_position, is_moving_flag, lpc,
                                      lresp, inbuf, fwq>>
    /\ UNCHANGED printer_on_serial

---------------------------------------------------------------------------
(* The methods, after a send_gcode call has returned *)

Done(f, r) == [f EXCEPT !.step = "done", !.pc = "out", !.opret = r,
                        !.cmd = NoCmd, !.elapsed = 0, !.response = None,
                        !.ret = FALSE, !.ignored = FALSE]

\* what the running class's method returns for a Python True / False
RetVal(b) == IF variant = "claude8jan" THEN "None"
             ELSE IF b THEN "True" ELSE "False"

\* move_xyz after send_gcode: claude9jan lines 159-165 (the position is set
\* on acknowledgment only), claude8jan lines 142-147 (it is set always)
MoveSetsPosition(acked) == IF variant = "claude8jan" THEN TRUE ELSE acked

\* is_moving, lines 266-271: some axis is further than the tolerance (0.1)
\* from the target; positions are whole millimetres
OffTarget(p) == \E a \in Axes : p[a] # target_position[a]

\* the result of G28 not looked at
HomeFollowsUpAlways(acked) == TRUE
\* home_all_axes, lines 182-188: the follow-up move is sent, and the position
\* reset, when G28 was acknowledged
HomeFollowsUp(acked) == acked

\* is_moving taking every move for unfinished
StillMovingAlways == TRUE
\* is_moving, lines 248-249: without the flag _is_moving it returns False at
\* once
StillMoving == is_moving_flag

OpReturn(t) ==
    LET f == th[t]
        s == f.step
    IN
    /\ f.pc = "ret"
    /\ CASE s = "g1" ->
              IF variant = "claude9jan" /\ f.ret /\ StillMoving
              THEN \* is_moving, line 255
                   /\ th' = [th EXCEPT ![t] =
                               EnterSend([f EXCEPT !.step = "m400"],
                                         Cmd("M400", Origin))]
                   /\ UNCHANGED current_position
              ELSE \* is_moving, lines 248-249, when move_xyz calls it
                   /\ th' = [th EXCEPT ![t] =
                               [Done(f, RetVal(f.ret)) EXCEPT !.moving =
                                  IF variant = "claude9jan" /\ f.ret
                                  THEN "False" ELSE @]]
                   /\ current_position' =
                        IF MoveSetsPosition(f.ret) THEN Clamp(f.req)
                        ELSE current_position
         [] s = "m400" ->
              \* is_moving, line 258: get_current_position
              /\ th' = [th EXCEPT ![t] =
                          EnterSend([f EXCEPT !.step = "im114"],
                                    Cmd("M114", Origin))]
              /\ UNCHANGED current_position
         [] s = "im114" ->
              /\ th' = [th EXCEPT ![t] =
                          IF f.ret THEN [f EXCEPT !.step = "imresp", !.pc = "gpr"]
                          ELSE \* lines 261-264, then move_xyz's loop, line 161
                               EnterSend([f EXCEPT !.step = "m400",
                                                   !.moving = "True"],
                                         Cmd("M400", Origin))]
              /\ UNCHANGED current_position
         [] s = "g28" ->
              \* home_all_axes, lines 182-188
              IF HomeFollowsUp(f.ret)
              THEN /\ current_position' = Origin
                   /\ th' = [th EXCEPT ![t] =
                               EnterSend([f EXCEPT !.step = "g1home"],
                                         MoveCommand(Origin))]
              ELSE /\ th' = [th EXCEPT ![t] = Done(f, RetVal(FALSE))]
                   /\ UNCHANGED current_position
         [] s = "wm400" ->
              \* wait_for_movement_completion, lines 170-171: whatever
              \* send_gcode returned, a response is read next
              /\ th' = [th EXCEPT ![t] = [f EXCEPT !.step = "wresp", !.pc = "gpr"]]
              /\ UNCHANGED current_position
         [] s \in {"m201", "m205"} ->
              \* set_acceleration, line 202; set_jerk, line 210
              /\ th' = [th EXCEPT ![t] = Done(f, RetVal(f.ret))]
              /\ UNCHANGED current_position
         [] s = "g1home" ->
              \* line 187: the follow-up move's result is not looked at
              /\ th' = [th EXCEPT ![t] = Done(f, RetVal(TRUE))]
              /\ UNCHANGED current_position
         [] OTHER ->
              \* s = "m114": get_current_position, lines 282-283 and 302
              /\ th' = [th EXCEPT ![t] =
                          IF f.ret THEN [f EXCEPT !.step = "resp", !.pc = "gpr"]
                          ELSE Done(f, "None")]
              /\ UNCHANGED current_position
    /\ UNCHANGED <<pfvars, cfvars, exvars, variant, settings, printer_on_serial, connected, waiting_for_response,
                   last_response, target_position, is_moving_flag,
                   lpc, lresp, inbuf, fwq>>

\* _get_printer_response (lines 304-315) and the parse of
\* get_current_position (lines 284-302); inside is_moving, lines 261-276;
\* inside wait_for_movement_completion, lines 171-176
GetResponse(t) ==
    LET f == th[t]
        got == printer_on_serial = "open" /\ inbuf # <<>>
        txt == IF got THEN Head(inbuf).txt ELSE <<>>
        p == IF txt # <<>> THEN ParsePosition(txt)
             ELSE [r |-> "short", pos |-> Origin]
        ok == p.r = "pos"
    IN
    /\ f.pc = "gpr"
    /\ inbuf' = IF got THEN Tail(inbuf) ELSE inbuf
    /\ IF f.step = "resp"
       THEN /\ th' = [th EXCEPT ![t] =
                        IF ok THEN [Done(f, "Pos") EXCEPT !.rpos = p.pos]
                        ELSE Done(f, "None")]
            /\ current_position' = IF ok THEN p.pos ELSE current_position
            /\ UNCHANGED is_moving_flag
       ELSE IF f.step = "wresp"
       THEN /\ th' = [th EXCEPT ![t] =
                        Done(f, IF got /\ HasOk(txt) THEN "True" ELSE "False")]
            /\ UNCHANGED <<current_position, is_moving_flag>>
       ELSE IF ok /\ ~ OffTarget(p.pos)
            THEN \* is_moving returns False; move_xyz, lines 163-164
                 /\ is_moving_flag' = FALSE
                 /\ current_position' = Clamp(f.req)
                 /\ th' = [th EXCEPT ![t] =
                             [Done(f, "True") EXCEPT !.moving = "False"]]
            ELSE \* still moving: move_xyz's loop calls is_moving again
                 /\ current_position' = IF ok THEN p.pos ELSE current_position
                 /\ th' = [th EXCEPT ![t] =
                             EnterSend([f EXCEPT !.step = "m400",
                                                 !.moving = "True"],
                                       Cmd("M400", Origin))]
                 /\ UNCHANGED is_moving_flag
    /\ UNCHANGED <<pfvars, cfvars, exvars, variant, settings, printer_on_serial, connected, waiting_for_response,
                   last_response, target_position, lpc, lresp, fwq>>

\* close_connection, lines 226-229: with a handle present, connected = False
CloseBegin(t) ==
    /\ th[t].step \in {"idle", "done"}
    /\ printer_on_serial # "none"
    /\ connected' = FALSE
    /\ th' = [th EXCEPT ![t] = [Fresh EXCEPT !.op = "close",
                                             !.step = "closing"]]
    /\ UNCHANGED <<pfvars, cfvars, exvars, variant, settings, printer_on_serial, waiting_for_response,
                   last_response, current_position, target_position,
                   is_moving_flag, lpc, lresp, inbuf, fwq>>

\* close_connection, lines 230-232: after the sleep the port is closed and
\* printer_on_serial = None
CloseEnd(t) ==
    /\ th[t].step = "closing"
    /\ printer_on_serial' = "none"
    /\ th' = [th EXCEPT ![t] = Done(th[t], "None")]
    /\ UNCHANGED <<pfvars, cfvars, exvars, variant, settings, connected, waiting_for_response,
                   last_response, current_position, target_position,
                   is_moving_flag, lpc, lresp, inbuf, fwq>>

---------------------------------------------------------------------------
(* The experiment runner, Experiment *)

\* a path of two wells, as load_path_points hands it to configure
TwoWells ==
    <<[X |-> 1, Y |-> 0, Z |-> 0, well |-> <<"A", "1">>],
      [X |-> 2, Y |-> 0, Z |-> 0, well |-> <<"A", "2">>]>>

\* a folder is the sequence of the names on its path; the ones that exist
Folder(parent, name) == <<parent, name>>
ExistingDirs == {<<"data">>}

\* os.path.dirname: the path without its last name ('' for a bare name)
Dirname(folder) ==
    IF folder = <<>> THEN <<>> ELSE SubSeq(folder, 1, Len(folder) - 1)

\* os.path.exists: '' does not exist
Exists(folder) == folder \in ExistingDirs

\* a config dictionary (durations and pause times in ticks of the clock)
Config(path, pause, dur, folder) ==
    [path_points |-> path, pause_time |-> pause, duration |-> dur,
     save_folder |-> folder, file_prefix |-> "img"]

\* __init__, lines 34-40: the parameters before any configure
Constructed == [path_points |-> <<>>, pause_time |-> 1, duration |-> 0,
                save_folder |-> <<>>, file_prefix |-> ""]

\* the configuration of the runs: two wells, a dwell of one tick, a
\* duration of one tick
RunConf == Config(TwoWells, 1, 1, Folder("data", "run"))

\* the configurations the GUI thread hands to configure: each constraint
\* kept or broken
Configs ==
    {Config(path, pause, dur, folder) :
        path \in {<<>>, TwoWells}, pause \in {0, 1, 2}, dur \in {0, 1},
        folder \in {Folder("data", "run"), Folder("gone", "run"),
                    <<"images">>}}

\* self.path_points (configure, line 80): the wells of the run
ExperimentPath == cfg.path_points

\* self.duration (configure, line 82), in ticks of the clock
Duration == cfg.duration

\* validate_configuration, lines 115-130, with parameters c: the message of
\* the first check that raises, or "ok"
Violation(c, hw) ==
    IF c.path_points = <<>> THEN "No path points defined"
    ELSE IF c.pause_time <= 0 THEN "Pause time must be positive"
    ELSE IF c.duration <= 0 THEN "Duration must be positive"
    ELSE IF ~ Exists(Dirname(c.save_folder))
         THEN "Save directory parent does not exist"
    ELSE IF ~ hw THEN "Hardware not properly initialized"
    ELSE "ok"

\* int(self.duration / self.pause_time), line 173
TotalIterations(c) == c.duration \div c.pause_time

\* what the capture source hands back to line 277: a frame, or None
CaptureResults == {"frame", "None"}

\* the threads start() can have alive at once: each runs _experiment_loop
\* and calls the controller as the thread LoopThread(l)
Loops == {1, 2}
LoopThread(l) == IF l = 1 THEN "exp" ELSE "exp2"

\* a thread not started, or one that has left _experiment_loop
Gone(l) == ex[l].pc \in {"none", "exit"}
Alive(l) == ~ Gone(l)

\* an event of run r (the r-th loop launched), on well w under iteration k
Event(r, e, w, k) == [run |-> r, ev |-> e, well |-> w, k |-> k]
NoWell == <<>>

\* the events e of the log, in order, each as <<well, k>>
RECURSIVE Events(_, _)
Events(log, e) ==
    IF log = <<>> THEN <<>>
    ELSE IF Head(log).ev = e
         THEN <<<<Head(log).well, Head(log).k>>>> \o Events(Tail(log), e)
         ELSE Events(Tail(log), e)

\* the part of the log that run r wrote
LogOf(r) == SelectSeq(exlog, LAMBDA x : x.run = r)

\* the experiment thread is inside a well visit (lines 254-291)
InVisit(l) == ex[l].pc \in {"move", "barrier", "dwell"}

\* _update_status: the status callback is invoked with the text
Notify(text) == [n |-> status.n + 1, text |-> text]

\* a public method is entered: the call is counted
Called(name) == [api EXCEPT !.call = name, !.n = @ + 1]

\* configure, lines 79-102, called with one of the dictionaries cs.  The
\* parameters are assigned first (lines 80-84), then validated: a failed
\* validation reports its cause (line 135), makes configure raise ValueError
\* (line 88), which is reported (line 101) and raised again (line 102).
\* Otherwise the record is saved (a failed save is reported and swallowed,
\* lines 155-157) and the status callback told (line 97).
ExConfigure(cs) ==
    /\ api.n < MaxCalls
    /\ \E c \in cs, saved \in BOOLEAN :
         /\ cfg' = c
         /\ IF Violation(c, hardware) # "ok"
            THEN /\ conf_last' =
                       [raised |-> TRUE,
                        reports |-> <<<<"Validation error", Violation(c, hardware)>>,
                                      <<"Configuration error",
                                        "Invalid experiment configuration">>>>]
                 /\ api' = Called("configure")
                 /\ UNCHANGED <<disk, status>>
            ELSE /\ disk' = IF saved
                            THEN [writes |-> disk.writes + 1, content |-> c]
                            ELSE disk
                 /\ conf_last' =
                       [raised |-> FALSE,
                        reports |-> IF saved THEN <<>>
                                    ELSE <<<<"Failed to save configuration",
                                             "OSError">>>>]
                 /\ api' = [Called("configure") EXCEPT !.stale = FALSE]
                 /\ status' = Notify("Configuration complete")
    /\ UNCHANGED <<gvars, pfvars, is_running, is_paused, current_iteration,
                   start_time, now, ex, exlog, hardware, total_iterations, gui>>

\* start, lines 169-181, for a runner found not running: the state is
\* initialised and a new thread runs _experiment_loop in slot l; st is what
\* the status callback was told before and loops the threads as they were
\* before.  With a pause_time of 0 line 173 raises ZeroDivisionError: it is
\* reported and stop() called (lines 183-186).
Launch(l, st, loops) ==
    /\ start_time' = now
    /\ current_iteration' = 0
    /\ is_paused' = FALSE
    /\ IF cfg'.pause_time = 0
       THEN /\ is_running' = FALSE
            /\ exlog' = Append(exlog, Event(0, "error", NoWell, 0))
            /\ status' = [n |-> st.n + 1, text |-> "Experiment stopped"]
            /\ ex' = loops
            /\ UNCHANGED total_iterations
       ELSE /\ is_running' = TRUE
            /\ total_iterations' = TotalIterations(cfg')
            /\ ex' = [loops EXCEPT ![l] = [pc |-> "while", idx |-> 0,
                                        iteration |-> 0, path |-> <<>>,
                                        pin |-> FALSE,
                                        run |-> api.runs + 1,
                                        cause |-> "none",
                                        halt |-> FALSE]]
            /\ status' = [n |-> st.n + 1, text |-> "Experiment running"]
            /\ exlog' = exlog

\* the first of the slots ls that is free
FreeSlot(ls, l) == l \in ls /\ Gone(l) /\ \A m \in ls : Gone(m) => l <= m

\* start without the test of line 163: the state is initialised and a thread
\* launched whether the runner is running or not
ExStartUnguarded(ls) ==
    /\ api.n < MaxCalls
    /\ api' = [Called("start") EXCEPT !.runs = @ + 1]
    /\ cfg' = cfg
    /\ IF \E l \in ls : Gone(l)
       THEN \E l \in ls : FreeSlot(ls, l) /\ Launch(l, status, ex)
       ELSE /\ is_running' = TRUE
            /\ is_paused' = FALSE
            /\ start_time' = now
            /\ current_iteration' = 0
            /\ status' = Notify("Experiment running")
            /\ UNCHANGED <<ex, exlog, total_iterations>>
    /\ UNCHANGED <<gvars, pfvars, now, hardware, disk, conf_last, gui>>

\* start, lines 163-186: with the runner running, a warning and nothing else;
\* otherwise the state is initialised and a new thread runs _experiment_loop.
\* The thread takes the first of the slots ls that is free.
ExStart(ls) ==
    /\ api.n < MaxCalls
    /\ cfg' = cfg
    /\ IF is_running
       THEN /\ api' = Called("start")
            /\ UNCHANGED <<is_running, is_paused, start_time,
                           current_iteration, ex, status, exlog,
                           total_iterations>>
       ELSE \E l \in ls :
              /\ FreeSlot(ls, l)
              /\ api' = [Called("start") EXCEPT
                           !.runs = IF cfg.pause_time = 0 THEN @ ELSE @ + 1,
                           !.stale = @ \/ cfg.pause_time = 0]
              /\ Launch(l, status, ex)
    /\ UNCHANGED <<gvars, pfvars, now, hardware, disk, conf_last, gui>>

\* pause, lines 192-193
ExPause ==
    /\ api.n < MaxCalls
    /\ api' = Called("pause")
    /\ is_paused' = TRUE
    /\ ex' = [l \in Loops |-> [ex[l] EXCEPT !.pin = @ \/ InVisit(l)]]
    /\ status' = Notify("Experiment paused")
    /\ UNCHANGED <<gvars, pfvars, cfvars, is_running, current_iteration, start_time,
                   now, exlog>>

\* resume, lines 199-200
ExResume ==
    /\ api.n < MaxCalls
    /\ api' = Called("resume")
    /\ is_paused' = FALSE
    /\ status' = Notify("Experiment resumed")
    /\ UNCHANGED <<gvars, pfvars, cfvars, is_running, current_iteration, start_time,
                   now, ex, exlog>>

\* stop, lines 206-208, as the GUI thread calls it
ExStop ==
    /\ api.n < MaxCalls
    /\ api' = [Called("stop") EXCEPT !.stale = @ \/ is_running]
    /\ is_running' = FALSE
    /\ is_paused' = FALSE
    /\ status' = Notify("Experiment stopped")
    /\ ex' = [l \in Loops |-> [ex[l] EXCEPT !.halt = @ \/ Alive(l)]]
    /\ UNCHANGED <<gvars, pfvars, cfvars, current_iteration, start_time, now, exlog>>

\* the clock the loop reads at line 217 advances
ExClock ==
    /\ now < MaxNow
    /\ now' = now + 1
    /\ UNCHANGED <<gvars, pfvars, cfvars, is_running, is_paused, current_iteration,
                   start_time, ex, exlog, api, status>>

\* stop, lines 206-208, as the run loop calls it (lines 221 and 237)
LoopStops ==
    /\ is_running' = FALSE
    /\ is_paused' = FALSE
    /\ status' = Notify("Experiment stopped")
    /\ api' = [api EXCEPT !.stale = @ \/ is_running]

\* the while loop without the check of the duration
ExLoopUnbounded(l) ==
    /\ ex[l].pc = "while"
    /\ IF ~ is_running
       THEN /\ ex' = [ex EXCEPT ![l].pc = "exit"]
            /\ exlog' = Append(exlog, Event(ex[l].run, "exit", NoWell, 0))
            /\ UNCHANGED <<is_running, is_paused, status, api>>
       ELSE IF FALSE
       THEN \* lines 217-222: stop(), break
            /\ LoopStops
            /\ ex' = [ex EXCEPT ![l].pc = "exit"]
            /\ exlog' = Append(exlog, Event(ex[l].run, "exit", NoWell, 0))
       ELSE IF is_paused
       THEN \* lines 225-229: sleep(0.1), continue
            UNCHANGED <<is_running, is_paused, status, api, ex, exlog>>
       ELSE /\ ex' = [ex EXCEPT ![l].pc = "point", ![l].idx = 1,
                                ![l].iteration = current_iteration,
                                ![l].path = cfg.path_points]
            /\ UNCHANGED <<is_running, is_paused, status, api, exlog>>
    /\ UNCHANGED <<gvars, pfvars, cfvars, current_iteration, start_time, now>>

\* _experiment_loop, lines 215-232: one turn of the while loop, up to the
\* entry of _execute_iteration (line 246)
ExLoop(l) ==
    /\ ex[l].pc = "while"
    /\ IF ~ is_running
       THEN /\ ex' = [ex EXCEPT ![l].pc = "exit"]
            /\ exlog' = Append(exlog, Event(ex[l].run, "exit", NoWell, 0))
            /\ UNCHANGED <<is_running, is_paused, status, api>>
       ELSE IF now - start_time > Duration
       THEN \* lines 217-222: stop(), break
            /\ LoopStops
            /\ ex' = [ex EXCEPT ![l].pc = "exit"]
            /\ exlog' = Append(exlog, Event(ex[l].run, "exit", NoWell, 0))
       ELSE IF is_paused
       THEN \* lines 225-229: sleep(0.1), continue
            UNCHANGED <<is_running, is_paused, status, api, ex, exlog>>
       ELSE /\ ex' = [ex EXCEPT ![l].pc = "point", ![l].idx = 1,
                                ![l].iteration = current_iteration,
                                ![l].path = cfg.path_points]
            /\ UNCHANGED <<is_running, is_paused, status, api, exlog>>
    /\ UNCHANGED <<gvars, pfvars, cfvars, current_iteration, start_time, now>>

\* the visits begun so far
Begun == Len(Events(exlog, "move"))

\* _execute_iteration, lines 248-261 and 294-296: the head of the for loop.
\* After the last point the counter is incremented and progress reported; a
\* stopped or paused run returns; otherwise move_xyz is called for the point.
ExPoint(l) ==
    /\ ex[l].pc = "point"
    /\ IF ex[l].idx > Len(ex[l].path)
       THEN /\ current_iteration < MaxVisits
            /\ current_iteration' = current_iteration + 1
            /\ exlog' = Append(exlog, Event(ex[l].run, "progress", NoWell,
                                            current_iteration + 1))
            /\ ex' = [ex EXCEPT ![l].pc = "while"]
            /\ UNCHANGED <<th, target_position>>
       ELSE IF ~ is_running \/ is_paused
       THEN /\ ex' = [ex EXCEPT ![l].pc = "while"]
            /\ UNCHANGED <<th, target_position, current_iteration, exlog>>
       ELSE LET point == ex[l].path[ex[l].idx]
                p == Pos(point.X, point.Y, point.Z)
            IN  /\ Begun < MaxVisits
                /\ th' = [th EXCEPT ![LoopThread(l)] =
                            EnterSend([Fresh EXCEPT !.op = "move", !.req = p,
                                                    !.step = "g1"],
                                      MoveCommand(p))]
                /\ target_position' = Clamp(p)
                /\ exlog' = Append(exlog, Event(ex[l].run, "move", point.well,
                                                ex[l].iteration))
                /\ ex' = [ex EXCEPT ![l].pc = "move", ![l].pin = FALSE]
                /\ UNCHANGED current_iteration
    /\ UNCHANGED <<pfvars, cfvars, is_running, is_paused, start_time, now, api, status,
                   variant, settings, printer_on_serial,
                   connected, waiting_for_response, last_response,
                   current_position, is_moving_flag, lpc, lresp, inbuf, fwq>>

\* the exception is reported and swallowed: the loop goes on
ExFailSwallowed(l, c, done) ==
    LET w == ex[l].path[ex[l].idx].well
        k == ex[l].iteration
        r == ex[l].run
    IN  /\ exlog' = exlog \o done \o <<Event(r, "error", w, k),
                                       Event(r, "error", w, k)>>
        /\ UNCHANGED <<is_running, is_paused, status, api>>
        /\ ex' = [ex EXCEPT ![l].pc = "while", ![l].cause = c]

\* an exception leaves _execute_iteration (lines 301-304: error callback,
\* raise) and then _experiment_loop (lines 234-237: error callback, stop).
\* done: what the visit had logged before the exception; c: what failed.
ExFail(l, c, done) ==
    LET w == ex[l].path[ex[l].idx].well
        k == ex[l].iteration
        r == ex[l].run
    IN  /\ exlog' = exlog \o done \o <<Event(r, "error", w, k),
                                       Event(r, "error", w, k),
                                       Event(r, "exit", NoWell, 0)>>
        /\ LoopStops
        /\ ex' = [ex EXCEPT ![l].pc = "exit", ![l].cause = c]

\* the pause flag looked at again in the middle of a visit
ExMovedPreempted(l) ==
    /\ ex[l].pc = "move"
    /\ th[LoopThread(l)].step = "done"
    /\ IF is_paused
       THEN /\ ex' = [ex EXCEPT ![l].pc = "while"]
            /\ UNCHANGED <<th, is_running, is_paused, exlog, api, status>>
       ELSE IF th[LoopThread(l)].opret # "True"
       THEN /\ ExFail(l, "move", <<>>)
            /\ UNCHANGED th
       ELSE /\ th' = [th EXCEPT ![LoopThread(l)] =
                        EnterSend([Fresh EXCEPT !.op = "barrier",
                                                !.step = "wm400"],
                                  Cmd("M400", Origin))]
            /\ exlog' = Append(exlog, Event(ex[l].run, "barrier",
                                            ex[l].path[ex[l].idx].well,
                                            ex[l].iteration))
            /\ ex' = [ex EXCEPT ![l].pc = "barrier"]
            /\ UNCHANGED <<is_running, is_paused, api, status>>
    /\ UNCHANGED <<pfvars, cfvars, current_iteration, start_time, now,
                   variant, settings, printer_on_serial,
                   connected, waiting_for_response, last_response,
                   current_position, target_position, is_moving_flag,
                   lpc, lresp, inbuf, fwq>>

\* _execute_iteration, lines 261-267: move_xyz has returned; a failed move
\* raises RuntimeError, otherwise wait_for_movement_completion is called
ExMoved(l) ==
    /\ ex[l].pc = "move"
    /\ th[LoopThread(l)].step = "done"
    /\ IF th[LoopThread(l)].opret # "True"
       THEN /\ ExFail(l, "move", <<>>)
            /\ UNCHANGED th
       ELSE /\ th' = [th EXCEPT ![LoopThread(l)] =
                        EnterSend([Fresh EXCEPT !.op = "barrier",
                                                !.step = "wm400"],
                                  Cmd("M400", Origin))]
            /\ exlog' = Append(exlog, Event(ex[l].run, "barrier",
                                            ex[l].path[ex[l].idx].well,
                                            ex[l].iteration))
            /\ ex' = [ex EXCEPT ![l].pc = "barrier"]
            /\ UNCHANGED <<is_running, is_paused, api, status>>
    /\ UNCHANGED <<pfvars, cfvars, current_iteration, start_time, now,
                   variant, settings, printer_on_serial,
                   connected, waiting_for_response, last_response,
                   current_position, target_position, is_moving_flag,
                   lpc, lresp, inbuf, fwq>>

\* _execute_iteration, lines 267-272: wait_for_movement_completion has
\* returned (its result is not looked at) and sleep(pause_time) begins
ExDwell(l) ==
    /\ ex[l].pc = "barrier"
    /\ th[LoopThread(l)].step = "done"
    /\ ex' = [ex EXCEPT ![l].pc = "dwell"]
    /\ exlog' = Append(exlog, Event(ex[l].run, "dwell",
                                    ex[l].path[ex[l].idx].well,
                                    ex[l].iteration))
    /\ UNCHANGED <<gvars, pfvars, cfvars, is_running, is_paused, current_iteration,
                   start_time, now, api, status>>

\* _execute_iteration, lines 277-291: after the sleep the frame is captured
\* (None raises RuntimeError) and written (a failed imwrite raises
\* RuntimeError); on to the next point
ExVisit(l) ==
    /\ ex[l].pc = "dwell"
    /\ \E frame \in CaptureResults, written \in BOOLEAN :
         LET w == ex[l].path[ex[l].idx].well
             k == ex[l].iteration
             r == ex[l].run
         IN  IF frame = "None"
             THEN ExFail(l, "capture", <<>>)
             ELSE IF ~ written
             THEN ExFail(l, "save", <<Event(r, "capture", w, k)>>)
             ELSE /\ exlog' = exlog \o <<Event(r, "capture", w, k),
                                         Event(r, "save", w, k)>>
                  /\ ex' = [ex EXCEPT ![l].pc = "point", ![l].idx = @ + 1]
                  /\ UNCHANGED <<is_running, is_paused, api, status>>
    /\ UNCHANGED <<gvars, pfvars, cfvars, current_iteration, start_time, now>>

---------------------------------------------------------------------------
(* The experiment window, ExperimentGUI *)

\* the buttons after start_experiment (lines 233-236), after
\* pause_experiment (lines 247-249) and after stop_experiment (lines 254-257)
Clicked(shown, start, pause, stop) ==
    [is_running |-> shown, start |-> start, pause |-> pause, stop |-> stop,
     n |-> gui.n + 1]

\* the run loops after stop(): the live ones will leave at their next test
Halted == [l \in Loops |-> [ex[l] EXCEPT !.halt = @ \/ Alive(l)]]

\* start_experiment, lines 217-242, with settings that validate_settings
\* lets pass and that make the dictionary c: configure(c); then resume() if
\* the runner is paused, start() otherwise; the window shows the experiment
\* running.  Each error that the runner reports reaches handle_error (lines
\* 279-281), which calls stop_experiment: a configure that raises does so
\* after two reports and start_experiment calls stop_experiment once more; a
\* record that cannot be written is one report, after which configure goes on
\* and start() finds a runner neither running nor paused.
GuiStart(cs, ls) ==
    /\ gui.start
    /\ gui.n < MaxClicks
    /\ \E c \in cs, saved \in BOOLEAN :
         /\ cfg' = c
         /\ IF Violation(c, hardware) # "ok"
            THEN /\ conf_last' =
                       [raised |-> TRUE,
                        reports |-> <<<<"Validation error", Violation(c, hardware)>>,
                                      <<"Configuration error",
                                        "Invalid experiment configuration">>>>]
                 /\ api' = [api EXCEPT !.call = "stop", !.n = @ + 4,
                                       !.stale = @ \/ is_running]
                 /\ is_running' = FALSE
                 /\ is_paused' = FALSE
                 /\ status' = [n |-> status.n + 3,
                               text |-> "Experiment stopped"]
                 /\ ex' = Halted
                 /\ gui' = Clicked(FALSE, TRUE, FALSE, FALSE)
                 /\ UNCHANGED <<disk, start_time, current_iteration,
                                total_iterations, exlog>>
            ELSE /\ disk' = IF saved
                            THEN [writes |-> disk.writes + 1, content |-> c]
                            ELSE disk
                 /\ conf_last' =
                       [raised |-> FALSE,
                        reports |-> IF saved THEN <<>>
                                    ELSE <<<<"Failed to save configuration",
                                             "OSError">>>>]
                 /\ gui' = Clicked(TRUE, FALSE, TRUE, TRUE)
                 /\ IF saved /\ is_paused
                    THEN \* resume(), lines 199-200
                         /\ api' = [api EXCEPT !.call = "resume", !.n = @ + 2,
                                               !.stale = FALSE]
                         /\ is_paused' = FALSE
                         /\ status' = [n |-> status.n + 2,
                                       text |-> "Experiment resumed"]
                         /\ UNCHANGED <<is_running, start_time,
                                        current_iteration, total_iterations,
                                        ex, exlog>>
                    ELSE IF saved /\ is_running
                    THEN \* start() on a running runner, lines 163-165
                         /\ api' = [api EXCEPT !.call = "start", !.n = @ + 2,
                                               !.stale = FALSE]
                         /\ status' = Notify("Configuration complete")
                         /\ UNCHANGED <<is_running, is_paused, start_time,
                                        current_iteration, total_iterations,
                                        ex, exlog>>
                    ELSE \E l \in ls :
                           /\ FreeSlot(ls, l)
                           /\ api' = [api EXCEPT
                                        !.call = "start",
                                        !.n = IF saved THEN @ + 2 ELSE @ + 3,
                                        !.runs = IF c.pause_time = 0
                                                 THEN @ ELSE @ + 1,
                                        !.stale = c.pause_time = 0]
                           /\ Launch(l,
                                     IF saved
                                     THEN Notify("Configuration complete")
                                     ELSE [n |-> status.n + 2,
                                           text |-> "Configuration complete"],
                                     IF saved THEN ex ELSE Halted)
    /\ UNCHANGED <<gvars, pfvars, now, hardware>>

\* pause_experiment, lines 244-250
GuiPause ==
    /\ gui.pause
    /\ gui.n < MaxClicks
    /\ IF gui.is_running
       THEN /\ api' = [api EXCEPT !.call = "pause", !.n = @ + 1]
            /\ is_paused' = TRUE
            /\ ex' = [l \in Loops |-> [ex[l] EXCEPT !.pin = @ \/ InVisit(l)]]
            /\ status' = Notify("Experiment paused")
            /\ gui' = [Clicked(FALSE, TRUE, FALSE, gui.stop) EXCEPT
                          !.stop = gui.stop]
       ELSE /\ gui' = [gui EXCEPT !.n = @ + 1]
            /\ UNCHANGED <<api, is_paused, ex, status>>
    /\ UNCHANGED <<gvars, pfvars, is_running, current_iteration, start_time,
                   now, exlog, cfg, hardware, total_iterations, disk,
                   conf_last>>

\* stop_experiment, lines 252-258
GuiStop ==
    /\ gui.stop
    /\ gui.n < MaxClicks
    /\ api' = [api EXCEPT !.call = "stop", !.n = @ + 1,
                          !.stale = @ \/ is_running]
    /\ is_running' = FALSE
    /\ is_paused' = FALSE
    /\ status' = Notify("Experiment stopped")
    /\ ex' = Halted
    /\ gui' = Clicked(FALSE, TRUE, FALSE, FALSE)
    /\ UNCHANGED <<gvars, pfvars, current_iteration, start_time, now, exlog,
                   cfg, hardware, total_iterations, disk, conf_last>>

---------------------------------------------------------------------------
(* The listener thread, listen_to_printer_output *)

\* lines 85-88: a line is waiting and is read
ListenRead ==
    /\ connected
    /\ printer_on_serial = "open"
    /\ lpc = "idle"
    /\ inbuf # <<>>
    /\ lresp' = Head(inbuf)
    /\ inbuf' = Tail(inbuf)
    /\ lpc' = "got"
    /\ UNCHANGED <<pfvars, cfvars, exvars, variant, settings, printer_on_serial, connected, waiting_for_response,
                   last_response, current_position, target_position,
                   is_moving_flag, fwq, th>>

\* lines 89-92: the line is stored for the waiting command, or dropped
ListenStore ==
    /\ lpc = "got"
    /\ last_response' = IF waiting_for_response THEN lresp ELSE last_response
    /\ lresp' = None
    /\ lpc' = "idle"
    /\ UNCHANGED <<pfvars, cfvars, exvars, variant, settings, printer_on_serial, connected, waiting_for_response,
                   current_position, target_position, is_moving_flag,
                   inbuf, fwq, th>>

\* The same loop statement by statement, for what a close_connection in
\* between does to it.  Line 85: the loop condition; a listener that finds
\* connected false leaves the loop and the thread ends.
ListenWhile ==
    /\ lpc = "idle"
    /\ lpc' = IF connected THEN "in" ELSE "exit"
    /\ UNCHANGED <<pfvars, cfvars, exvars, variant, settings, printer_on_serial, connected,
                   waiting_for_response, last_response, current_position,
                   target_position, is_moving_flag, lresp, inbuf, fwq, th>>

\* line 86, left operand: self.printer_on_serial is read and tested; None
\* sends the listener to its sleep (line 96)
ListenCheck ==
    /\ lpc = "in"
    /\ lpc' = IF printer_on_serial = "none" THEN "idle" ELSE "handle"
    /\ UNCHANGED <<pfvars, cfvars, exvars, variant, settings, printer_on_serial, connected,
                   waiting_for_response, last_response, current_position,
                   target_position, is_moving_flag, lresp, inbuf, fwq, th>>

\* line 86, right operand, and line 88: self.printer_on_serial is read again
\* for in_waiting and for readline().  On None the attribute access raises
\* AttributeError, on a handle closed or without its device the call raises:
\* neither is caught (line 93 catches UnicodeDecodeError only) and the
\* thread ends with the exception.
ListenWaiting ==
    /\ lpc = "handle"
    /\ IF printer_on_serial # "open"
       THEN lpc' = "raised" /\ UNCHANGED <<lresp, inbuf>>
       ELSE IF inbuf = <<>>
       THEN lpc' = "idle" /\ UNCHANGED <<lresp, inbuf>>
       ELSE /\ lresp' = Head(inbuf)
            /\ inbuf' = Tail(inbuf)
            /\ lpc' = "got"
    /\ UNCHANGED <<pfvars, cfvars, exvars, variant, settings, printer_on_serial, connected,
                   waiting_for_response, last_response, current_position,
                   target_position, is_moving_flag, fwq, th>>

---------------------------------------------------------------------------
(* The firmware and the clock *)

\* the firmware ends its oldest command with one of the lines it uses
FwReply(finals) ==
    /\ printer_on_serial = "open"
    /\ fwq # <<>>
    /\ ~ Head(fwq).report
    /\ Len(inbuf) < MaxBuf
    /\ \E txt \in finals : inbuf' = Append(inbuf, Line(txt, Head(fwq).re))
    /\ fwq' = Tail(fwq)
    /\ UNCHANGED <<pfvars, cfvars, exvars, variant, settings, printer_on_serial, connected, waiting_for_response,
                   last_response, current_position, target_position,
                   is_moving_flag, lpc, lresp, th>>

\* the firmware answers M114: the position report comes before the line
\* that ends the command
FwReport ==
    /\ printer_on_serial = "open"
    /\ fwq # <<>>
    /\ Head(fwq).report
    /\ Len(inbuf) < MaxBuf
    /\ inbuf' = Append(inbuf, Line(L_report, Head(fwq).re))
    /\ fwq' = <<[Head(fwq) EXCEPT !.report = FALSE]>> \o Tail(fwq)
    /\ UNCHANGED <<pfvars, cfvars, exvars, variant, settings, printer_on_serial, connected, waiting_for_response,
                   last_response, current_position, target_position,
                   is_moving_flag, lpc, lresp, th>>

\* the firmware emits a line on its own
FwChatter ==
    /\ printer_on_serial = "open"
    /\ Len(inbuf) < MaxBuf
    /\ \E txt \in ChatterLines : inbuf' = Append(inbuf, Line(txt, "none"))
    /\ UNCHANGED <<pfvars, cfvars, exvars, variant, settings, printer_on_serial, connected, waiting_for_response,
                   last_response, current_position, target_position,
                   is_moving_flag, lpc, lresp, fwq, th>>

\* time passes for every call that waits (time.time() - start_time, kept up
\* to the call's budget)
Tick ==
    /\ \E t \in Threads : Awaiting(t) /\ th[t].elapsed < Timeout(th[t].cmd)
    /\ th' = [t \in Threads |->
                IF Awaiting(t)
                THEN [th[t] EXCEPT !.elapsed =
                        IF @ + TickStep > Timeout(th[t].cmd)
                        THEN Timeout(th[t].cmd) ELSE @ + TickStep]
                ELSE th[t]]
    /\ UNCHANGED <<pfvars, cfvars, exvars, variant, settings, printer_on_serial, connected, waiting_for_response,
                   last_response, current_position, target_position,
                   is_moving_flag, lpc, lresp, inbuf, fwq>>

---------------------------------------------------------------------------
(* The pathfinder window, PathfinderGUI *)

\* WELL_PLATE
ROWS == 6
COLS == 8
ROW_LABELS == <<"A", "B", "C", "D", "E", "F">>
COL_LABELS == <<"1", "2", "3", "4", "5", "6", "7", "8">>

Corners == {"A1", "A8", "F8", "F1"}
\* a corner not captured yet (None)
NoCorner == [set |-> FALSE, pos |-> Origin]
Corner(p) == [set |-> TRUE, pos |-> p]

\* the positions the controller reports when a corner is captured: the
\* nominal place of the corner, or another one.  The spans between them are
\* whole multiples of COLS - 1 and ROWS - 1, so the divisions are exact.
CornerInputs(c) ==
    CASE c = "A1" -> {Pos(0, 0, 0), Pos(7, 5, 1)}
      [] c = "A8" -> {Pos(70, 0, 0), Pos(0, 0, 0)}
      [] c = "F1" -> {Pos(0, 50, 0), Pos(0, 0, 0)}
      [] OTHER    -> {Pos(70, 50, 0), Pos(0, 0, 0)}

Patterns == {"snake", "raster"}

\* generate_path, line 177
AllCaptured(cs) == \A c \in Corners : cs[c].set

\* generate_path, lines 185-186
XStep(cs) == (cs["A8"].pos["X"] - cs["A1"].pos["X"]) \div (COLS - 1)
YStep(cs) == (cs["F1"].pos["Y"] - cs["A1"].pos["Y"]) \div (ROWS - 1)

\* the point appended for grid row `row` and column index `idx` (0-based)
PathPoint(cs, row, idx, x_step, y_step) ==
    [X |-> cs["A1"].pos["X"] + idx * x_step,
     Y |-> cs["A1"].pos["Y"] + row * y_step,
     Z |-> cs["A1"].pos["Z"],
     well |-> <<ROW_LABELS[row + 1], COL_LABELS[idx + 1]>>]

SnakeIdxForward(row, col, cols) == col

\* generate_snake_path, line 211
SnakeIdx(row, col, cols) == IF row % 2 = 1 THEN cols - 1 - col ELSE col

RowPointsShort(cs, pat, row, cols, x_step, y_step) ==
    [k \in 1..(cols - 1) |->
        PathPoint(cs, row,
                  IF pat = "snake" THEN SnakeIdx(row, k - 1, cols) ELSE k - 1,
                  x_step, y_step)]

\* the inner loop of one row: the points for col = 0 .. cols - 1
RowPoints(cs, pat, row, cols, x_step, y_step) ==
    [k \in 1..cols |->
        PathPoint(cs, row,
                  IF pat = "snake" THEN SnakeIdx(row, k - 1, cols) ELSE k - 1,
                  x_step, y_step)]

\* the outer loop: the rows row, row + 1, .. rows - 1 appended in turn
RECURSIVE RowsFrom(_, _, _, _, _, _, _)
RowsFrom(cs, pat, row, rows, cols, x_step, y_step) ==
    IF row >= rows THEN <<>>
    ELSE RowPoints(cs, pat, row, cols, x_step, y_step)
            \o RowsFrom(cs, pat, row + 1, rows, cols, x_step, y_step)

GeneratedPathSwapped(cs, pat) ==
    RowsFrom(cs, IF pat = "snake" THEN "raster" ELSE "snake",
             0, ROWS, COLS, XStep(cs), YStep(cs))

\* generate_snake_path / generate_raster_path
GeneratedPath(cs, pat) ==
    RowsFrom(cs, pat, 0, ROWS, COLS, XStep(cs), YStep(cs))

\* capture_corner: the corner takes the position the controller reports
CaptureCorner(c) ==
    /\ \E p \in CornerInputs(c) : corners' = [corners EXCEPT ![c] = Corner(p)]
    /\ pf_last' = [call |-> "capture", ok |-> TRUE, pat |-> "none"]
    /\ UNCHANGED <<gvars, exvars, cfvars, path_points>>

GeneratePathUnchecked(pat) ==
    /\ path_points' = GeneratedPath(corners, pat)
    /\ pf_last' = [call |-> "generate", ok |-> AllCaptured(corners), pat |-> pat]
    /\ UNCHANGED <<gvars, exvars, cfvars, corners>>

\* generate_path: with a corner missing the ValueError of line 178 is caught
\* at line 202 and the error dialog shown
GeneratePath(pat) ==
    /\ IF AllCaptured(corners)
       THEN /\ path_points' = GeneratedPath(corners, pat)
            /\ pf_last' = [call |-> "generate", ok |-> TRUE, pat |-> pat]
       ELSE /\ path_points' = path_points
            /\ pf_last' = [call |-> "generate", ok |-> FALSE, pat |-> pat]
    /\ UNCHANGED <<gvars, exvars, cfvars, corners>>

\* clear_path
ClearPath ==
    /\ path_points' = <<>>
    /\ pf_last' = [call |-> "clear", ok |-> TRUE, pat |-> "none"]
    /\ UNCHANGED <<gvars, exvars, cfvars, corners>>

---------------------------------------------------------------------------
(* Specifications *)

\* GCode.__init__ (lines 10-29) with connect_to_printer (lines 51-81) either
\* succeeding or finding no port; Experiment.__init__ with the hardware
\* there or not (hw), its parameters conf either as constructed or as a
\* configure call that succeeded has left them, the record written by it
InitWith(v, conf, hw) ==
    /\ variant = v
    /\ printer_on_serial \in {"open", "none"}
    /\ connected = (printer_on_serial = "open")
    /\ waiting_for_response = FALSE
    /\ last_response = None
    /\ current_position = Origin
    /\ target_position = Origin
    /\ is_moving_flag = FALSE
    /\ settings = [feedrate |-> FEEDRATE, acceleration |-> ACCELERATION,
                   jerk |-> JERK]
    /\ lpc = "idle"
    /\ lresp = None
    /\ inbuf = <<>>
    /\ fwq = <<>>
    /\ th = [t \in Threads |-> Fresh]
    /\ corners = [c \in Corners |-> NoCorner]
    /\ path_points = <<>>
    /\ pf_last = [call |-> "none", ok |-> TRUE, pat |-> "none"]
    /\ is_running = FALSE
    /\ is_paused = FALSE
    /\ current_iteration = 0
    /\ ex = [l \in Loops |-> [pc |-> "none", idx |-> 0, iteration |-> 0,
                              path |-> <<>>, pin |-> FALSE, run |-> 0, cause |-> "none",
                              halt |-> FALSE]]
    /\ exlog = <<>>
    /\ start_time = 0
    /\ now = 0
    /\ api = [call |-> "none", n |-> 0, runs |-> 0, stale |-> FALSE]
    /\ status = [n |-> 0, text |-> "none"]
    /\ cfg = conf
    /\ hardware = hw
    /\ total_iterations = 0
    /\ disk = [writes |-> IF conf = Constructed THEN 0 ELSE 1,
               content |-> conf]
    /\ conf_last = [raised |-> FALSE, reports |-> <<>>]
    /\ gui = [is_running |-> FALSE, start |-> TRUE, pause |-> FALSE,
              stop |-> FALSE, n |-> 0]

\* the controller of class v beside a runner configured with RunConf
InitOf(v) == InitWith(v, RunConf, TRUE)

Init == InitOf("claude9jan")
Init8jan == InitOf("claude8jan")

\* a runner just constructed, with or without its hardware
InitConstructed == \E hw \in BOOLEAN : InitWith("claude9jan", Constructed, hw)

ThreadStep(t, ops, reqs) ==
    \/ Call(t, ops, reqs)
    \/ SgPrep(t)
    \/ SgPrepFail(t)
    \/ SgWrite(t)
    \/ SgWriteFail(t)
    \/ SgTimeout(t)
    \/ SgSee(t)
    \/ SgRead(t)
    \/ SgExamine(t)
    \/ OpReturn(t)
    \/ GetResponse(t)

\* a thread that moves and homes only
MotionStep(t, reqs) ==
    \/ Call(t, {"move", "home"}, reqs)
    \/ SgPrep(t)
    \/ SgPrepFail(t)
    \/ SgWrite(t)
    \/ SgWriteFail(t)
    \/ SgTimeout(t)
    \/ SgSee(t)
    \/ SgRead(t)
    \/ SgExamine(t)
    \/ OpReturn(t)

\* the claude8jan class has no get_current_position
ThreadStep8jan(t, reqs) == MotionStep(t, reqs)

\* listener, firmware and clock while no M114 is sent
Wire(finals) ==
    ListenRead \/ ListenStore \/ FwReply(finals) \/ FwChatter \/ Tick

Environment(finals) == Wire(finals) \/ FwReport

\* The GUI thread (jog and home controls) and the experiment-loop thread
\* (move_xyz) both call the controller; the firmware acknowledges or stays
\* silent.
Next == (\E t \in Callers : MotionStep(t, {Pos(2, 0 - 1, 1)}))
           \/ Wire({L_ok})

\* Only the GUI thread calls the controller (no experiment is running); the
\* firmware uses all its lines.
NextGui == ThreadStep("gui", AllOps, Requests) \/ Environment(FinalLines)

\* The GUI thread with its jog and home controls only.
NextMotion == MotionStep("gui", Requests) \/ Wire(FinalLines)

\* The GUI thread moves, homes and closes the connection while the
\* experiment thread moves; the firmware acknowledges or stays silent.
NextLoss ==
    \/ MotionStep("exp", {Pos(2, 0 - 1, 1)})
    \/ CloseBegin("gui")
    \/ CloseEnd("gui")
    \/ Wire({L_ok})

\* The pathfinder window: corners are captured, paths generated and cleared.
NextPath ==
    \/ \E c \in Corners : CaptureCorner(c)
    \/ \E pat \in Patterns : GeneratePath(pat)
    \/ ClearPath

\* The same with the claude8jan class.
NextGui8jan == ThreadStep8jan("gui", Requests) \/ Wire(FinalLines)

\* The GUI thread homes and queries only.
NextHome == ThreadStep("gui", {"home", "getpos"}, {Origin})
               \/ Environment({L_ok, L_error})

Spec == Init /\ [][Next]_vars
SpecGui == Init /\ [][NextGui]_vars
SpecMotion == Init /\ [][NextMotion]_vars
SpecLoss == Init /\ [][NextLoss]_vars
SpecPath == Init /\ [][NextPath]_vars
SpecGui8jan == Init8jan /\ [][NextGui8jan]_vars

\* the steps of a send_gcode call
SgStep(t) ==
    \/ SgPrep(t)
    \/ SgPrepFail(t)
    \/ SgWrite(t)
    \/ SgWriteFail(t)
    \/ SgTimeout(t)
    \/ SgSee(t)
    \/ SgRead(t)
    \/ SgExamine(t)

\* A thread inside send_gcode keeps running (it only sleeps 10 ms between
\* polls, line 137) and the clock advances.
SpecHomeFair ==
    Init /\ [][NextHome]_vars /\ WF_vars(SgStep("gui")) /\ WF_vars(Tick)

\* the controller calls of an experiment thread
RunCall(l) ==
    \/ SgStep(LoopThread(l))
    \/ OpReturn(LoopThread(l))
    \/ GetResponse(LoopThread(l))

\* the steps of the experiment thread in slot l
LoopStep(l) ==
    \/ ExLoop(l) \/ ExPoint(l) \/ ExMoved(l) \/ ExDwell(l) \/ ExVisit(l)
    \/ RunCall(l)

\* One experiment thread alive at a time: the GUI thread starts, pauses,
\* resumes and stops at any time, and calls start() again only after the
\* thread of the run before has left its loop; the firmware acknowledges or
\* stays silent; the duration is not reached.
NextRun ==
    \/ ExStart({1}) \/ ExPause \/ ExResume \/ ExStop
    \/ LoopStep(1)
    \/ ListenRead \/ ListenStore \/ FwReply({L_ok}) \/ Tick

\* the controller calls of an experiment thread while the device stays and
\* answers in time
PromptCall(l) ==
    \/ SgPrep(LoopThread(l))
    \/ SgWrite(LoopThread(l))
    \/ SgSee(LoopThread(l))
    \/ SgRead(LoopThread(l))
    \/ SgExamine(LoopThread(l))
    \/ OpReturn(LoopThread(l))
    \/ GetResponse(LoopThread(l))

\* start() and stop() at any time: a second thread can be started while the
\* first is still in its loop.  The device stays, the firmware
\* acknowledges within the budget of every command.
NextRace ==
    \/ ExStart(Loops) \/ ExStop
    \/ \E l \in Loops :
          \/ ExLoop(l) \/ ExPoint(l) \/ ExMoved(l) \/ ExDwell(l) \/ ExVisit(l)
          \/ PromptCall(l)
    \/ ListenRead \/ ListenStore \/ FwReply({L_ok})

\* The run against the clock: the GUI thread configures, starts, pauses,
\* resumes and stops at any time while the clock advances; the device stays
\* and the firmware acknowledges within the budget of every command.
NextTimed ==
    \/ ExConfigure({RunConf}) \/ ExStart({1}) \/ ExPause \/ ExResume \/ ExStop
    \/ ExClock
    \/ ExLoop(1) \/ ExPoint(1) \/ ExMoved(1) \/ ExDwell(1) \/ ExVisit(1)
    \/ PromptCall(1)
    \/ ListenRead \/ ListenStore \/ FwReply({L_ok})

SpecTimed == Init /\ [][NextTimed]_vars

\* a configuration whose dwell is longer than its duration
SlowConf == Config(TwoWells, 2, 1, Folder("data", "run"))

\* The experiment window: the user clicks Start, Pause and Stop while the
\* clock advances and the run loop runs; the device stays and the firmware
\* acknowledges within the budget of every command.
NextWindow ==
    \/ GuiStart({RunConf, SlowConf}, {1}) \/ GuiPause \/ GuiStop
    \/ ExClock
    \/ ExLoop(1) \/ ExPoint(1) \/ ExMoved(1) \/ ExDwell(1) \/ ExVisit(1)
    \/ PromptCall(1)
    \/ ListenRead \/ ListenStore \/ FwReply({L_ok})

SpecWindow == InitConstructed /\ [][NextWindow]_vars

\* The runner's public methods called with any configuration, beside the
\* run loop; the device stays and the firmware acknowledges in time.
NextConfig ==
    \/ ExConfigure(Configs) \/ ExStart({1}) \/ ExStop
    \/ ExLoop(1) \/ ExPoint(1) \/ ExMoved(1) \/ ExDwell(1) \/ ExVisit(1)
    \/ PromptCall(1)
    \/ ListenRead \/ ListenStore \/ FwReply({L_ok})

SpecConfig == InitConstructed /\ [][NextConfig]_vars
SpecRun == Init /\ [][NextRun]_vars

\* The GUI thread closes the connection while the experiment thread moves
\* and the listener runs statement by statement; the device stays and the
\* firmware acknowledges and chatters.
NextClose ==
    \/ CloseBegin("gui") \/ CloseEnd("gui")
    \/ ListenWhile \/ ListenCheck \/ ListenWaiting \/ ListenStore
    \/ Call("exp", {"move"}, {Pos(2, 0 - 1, 1)})
    \/ SgPrep("exp") \/ SgPrepFail("exp") \/ SgWrite("exp") \/ SgSee("exp")
    \/ SgRead("exp") \/ SgExamine("exp") \/ OpReturn("exp")
    \/ FwReply({L_ok}) \/ FwChatter

SpecClose == Init /\ [][NextClose]_vars

\* The jog window: the GUI thread sets feedrate, acceleration and jerk and
\* moves; the firmware acknowledges, refuses or stays silent.
NextSettings ==
    \/ SetFeedrate("gui") \/ SetAcceleration("gui") \/ SetJerk("gui")
    \/ Call("gui", {"move"}, {Pos(2, 0 - 1, 1)})
    \/ SgStep("gui")
    \/ OpReturn("gui")
    \/ ListenRead \/ ListenStore \/ FwReply({L_ok, L_error}) \/ Tick

SpecSettings == Init /\ [][NextSettings]_vars

\* The GUI thread moves; the firmware acknowledges, chatters or stays silent,
\* and never answers a position query.  The calling thread keeps running and
\* the clock advances.
NextMove ==
    \/ Call("gui", {"move"}, Requests)
    \/ SgStep("gui")
    \/ OpReturn("gui")
    \/ Wire({L_ok})

SpecMoveFair ==
    /\ Init /\ [][NextMove]_vars
    /\ WF_vars(SgStep("gui")) /\ WF_vars(OpReturn("gui")) /\ WF_vars(Tick)
SpecRace == Init /\ [][NextRace]_vars

---------------------------------------------------------------------------
(* Claims *)

\* the move command to p at the feedrate set
G1At(p) == [code |-> "G1", arg |-> p, feed |-> settings.feedrate]

\* thread t takes a step that leaves place p of send_gcode
Leaves(t, p) == th[t].pc = p /\ th'[t].pc # p

\* C1: at most one command is in flight: no two send_gcode calls are
\* awaiting resolution of a written command at the same time (so no call
\* writes while another is still awaiting).
C1_OneCommandInFlight ==
    \A t, u \in Threads : (Awaiting(t) /\ Awaiting(u)) => t = u

\* C2: a send_gcode call returns true only on a line the firmware emitted in
\* reply to that call's own command, never on the reply to an earlier one.
C2_AckIsOwnReply ==
    \A t \in Threads :
        (th[t].pc = "ret" /\ th[t].ret) => th[t].response.re = t

\* C3: a line the waiting call examines that contains "ok" (any case) makes
\* send_gcode return true; one that contains neither "ok" nor "error" leaves
\* the command pending, the call back in its polling loop.
C3_OkAcknowledgesChatterIgnored ==
    [][\A t \in Threads :
         (Leaves(t, "clr") /\ th[t].response.some) =>
            LET txt == th[t].response.txt IN
            /\ HasOk(txt) =>
                  /\ th'[t].pc = "ret" /\ th'[t].ret
                  /\ th'[t].outcome = "Acknowledged"
            /\ (~ HasOk(txt) /\ ~ HasError(txt)) =>
                  /\ th'[t].pc = "poll"
                  /\ th'[t].cmd = th[t].cmd
                  /\ th'[t].outcome = "none"
                  /\ waiting_for_response' = waiting_for_response]_vars

\* C3 witness: a call that examined and ignored a line without "ok" and
\* "error" was then acknowledged by an "ok" line.
C3_Witness ==
    /\ th["gui"].pc = "ret" /\ th["gui"].ret /\ th["gui"].ignored
    /\ HasOk(th["gui"].response.txt)

\* C4: every line containing "error" (any case) that the waiting call
\* examines makes send_gcode return false, whatever else the line contains.
C4_ErrorAlwaysFails ==
    [][\A t \in Threads :
         (Leaves(t, "clr") /\ th[t].response.some
            /\ HasError(th[t].response.txt)) =>
            /\ th'[t].pc = "ret" /\ ~ th'[t].ret
            /\ th'[t].outcome = "Failed"]_vars

\* C5: a written command that no line resolves fails only once its budget
\* has elapsed, 30 s for G28 and 10 s for any other command: a call that
\* returns from its wait without a resolving line returns false, has waited
\* its budget, and leaves the tracked position as it was.
C5_TimeoutOnlyAfterBudget ==
    [][\A t \in Threads :
         (Awaiting(t) /\ th'[t].pc = "ret"
            /\ ~ (th[t].pc = "clr" /\ th[t].response.some)) =>
            /\ ~ th'[t].ret
            /\ th'[t].outcome = "TimedOut"
            /\ th[t].elapsed >= (IF th[t].cmd.code = "G28" THEN 30 ELSE 10)
            /\ current_position' = current_position]_vars

\* C6: every send_gcode call that has written its command returns with one
\* of the outcomes Acknowledged, Failed, TimedOut, and every return of a call
\* leaves waiting_for_response false.
C6_EveryCallResolves ==
    [][\A t \in Threads :
         (InSend(t) /\ th'[t].pc = "ret") =>
            /\ ~ waiting_for_response'
            /\ Awaiting(t) =>
                  th'[t].outcome \in {"Acknowledged", "Failed", "TimedOut"}]_vars

\* With the GUI thread as the only caller, every send_gcode call returns:
\* after a write with one of the three outcomes, after a failed write with
\* the transport's exception, and waiting_for_response is false then.
OneCallerResolves ==
    InSend("gui") ~>
       /\ th["gui"].pc = "ret" /\ ~ waiting_for_response
       /\ th["gui"].outcome \in
             {"Acknowledged", "Failed", "TimedOut", "Exception"}

\* the request of thread t with its negative components replaced by 0
C7_Clamped(t) == [a \in Axes |-> IF th[t].req[a] < 0 THEN 0 ELSE th[t].req[a]]

\* C7: the move command move_xyz sends carries max(0, x), max(0, y),
\* max(0, z), and when move_xyz returns true the tracked position is that
\* clamped target, with no negative component.
C7_MoveClamps ==
    [][\A t \in Threads :
         th[t].op = "move" =>
            /\ \A i \in 1..Len(th[t].written) :
                  th[t].written[i] = G1At(C7_Clamped(t))
            /\ (th[t].step # "done" /\ th'[t].step = "done"
                   /\ th'[t].opret = "True") =>
                  /\ th[t].written # <<>>
                  /\ current_position' = C7_Clamped(t)
                  /\ \A a \in Axes : current_position'[a] >= 0]_vars

\* C7 witness: a move with a negative component has succeeded.
C7_Witness ==
    /\ th["gui"].op = "move" /\ th["gui"].step = "done"
    /\ th["gui"].opret = "True"
    /\ th["gui"].req["X"] < 0
    /\ current_position = Pos(0, 1, 0)

\* C8: when the move command is not acknowledged, move_xyz returns false and
\* leaves the tracked position as it was.
C8_FailedMoveKeepsPosition ==
    [][\A t \in Threads :
         (th[t].op = "move" /\ th[t].step = "g1" /\ th'[t].step = "done"
            /\ ~ th[t].ret) =>
            /\ th'[t].opret = "False"
            /\ current_position' = current_position]_vars

\* the step of thread t on which its move or homing is acknowledged and the
\* position set
C9_AckedMotion(t) ==
    /\ th[t].pc = "ret" /\ th[t].ret /\ th'[t] # th[t]
    /\ th[t].step \in {"g1", "g28"}

\* C9: the tracked position never has a negative component and changes only
\* on an acknowledged move or an acknowledged homing.
C9_PositionOnlyByAckedMotion ==
    [][/\ \A a \in Axes : current_position'[a] >= 0
       /\ current_position' # current_position =>
             \E t \in Threads : C9_AckedMotion(t)]_vars

\* C10: home_all_axes sends G28 first; acknowledged, the position becomes the
\* origin, the move to the origin is sent next and the call returns true;
\* not acknowledged, the call returns false with the position unchanged and
\* nothing but G28 written.
C10_Home ==
    [][\A t \in Threads :
         (th[t].op = "home" /\ th'[t] # th[t]) =>
            /\ th[t].step = "g28" => th[t].cmd = Cmd("G28", Origin)
            /\ IF th[t].step = "g28" /\ th[t].pc = "ret"
               THEN IF th[t].ret
                    THEN /\ current_position' = Origin
                         /\ th'[t].step = "g1home"
                         /\ th'[t].cmd = G1At(Origin)
                         /\ th'[t].pc \in {"prep", "ret"}
                    ELSE /\ current_position' = current_position
                         /\ th'[t].step = "done"
                         /\ th'[t].opret = "False"
                         /\ \A i \in 1..Len(th'[t].written) :
                               th'[t].written[i].code = "G28"
               ELSE /\ current_position' = current_position
                    /\ (th[t].step = "g1home" /\ th'[t].step = "done") =>
                          th'[t].opret = "True"
                    /\ th'[t].step = "done" => th[t].step = "g1home"]_vars

\* C10 witness: a homing has returned true after G28 and the move to the
\* origin were written, the position being the origin.
C10_Witness ==
    /\ th["gui"].op = "home" /\ th["gui"].step = "done"
    /\ th["gui"].opret = "True"
    /\ th["gui"].written = <<Cmd("G28", Origin), G1At(Origin)>>
    /\ current_position = Origin

\* C11: is_moving reports false only after it has sent the barrier M400 and
\* the query M114 and has parsed the position from the reply; in every other
\* case after a commanded move it reports true.
C11_IsMovingConservative ==
    [][\A t \in Threads :
         (th'[t].moving = "False" /\ th[t].moving # "False") =>
            /\ th[t].step = "imresp"
            /\ \E i \in 1..Len(th[t].written) : th[t].written[i].code = "M400"
            /\ \E i \in 1..Len(th[t].written) : th[t].written[i].code = "M114"
            /\ inbuf # <<>>
            /\ ParsePosition(Head(inbuf).txt).r = "pos"]_vars

\* C12: a get_current_position call whose M114 the firmware has answered
\* (the position report, then the "ok" that acknowledged the call) returns
\* the three values of that report; every other call returns None.
C12_ReturnsReportedPosition ==
    [][\A t \in Threads :
         (th[t].op = "getpos" /\ th[t].step # "done" /\ th'[t].step = "done") =>
            IF th[t].step = "resp" /\ th[t].response.re = t
            THEN /\ th'[t].opret = "Pos"
                 /\ th'[t].rpos = ParsePosition(L_report).pos
            ELSE th'[t].opret \in {"None", "Pos"}]_vars

\* the connection is lost: the device is gone (a write has raised), or there
\* is no port (never connected, or close_connection has run)
Lost == printer_on_serial \in {"dead", "none"}

\* C13: once the connection is lost it stays lost, and every send_gcode call
\* made from then on ends by returning false: it never returns true and never
\* leaves on an exception.
C13_SendsFailAfterLoss ==
    [][Lost =>
         /\ Lost'
         /\ \A t \in Threads :
               /\ (~ InSend(t) /\ th'[t].pc # th[t].pc /\ th'[t].pc # "out") =>
                     \/ th'[t].pc = "prep"
                     \/ th'[t].pc = "ret" /\ ~ th'[t].ret
                                          /\ th'[t].outcome = "NoPort"
               /\ (th[t].pc = "prep" /\ th'[t].pc # "prep") =>
                     /\ th'[t].pc = "ret" /\ ~ th'[t].ret
                     /\ th'[t].outcome = "Exception"]_vars

\* C13 witness: a move called after the write of an earlier call had raised
\* has returned False.
C13_Witness ==
    /\ printer_on_serial = "dead"
    /\ th["exp"].op = "move" /\ th["exp"].step = "done"
    /\ th["exp"].opret = "False" /\ th["exp"].written = <<>>
    /\ th["exp"].outcome = "Exception"

\* C14: after a write has raised, is_connected() returns false and no later
\* send writes to the transport or waits.
C14_DisconnectedAfterWriteFailure ==
    [][printer_on_serial' = "dead" =>
         /\ ~ connected'
         /\ \A t \in Threads :
               (printer_on_serial = "dead" /\ th'[t].pc # th[t].pc) =>
                  th'[t].pc \notin {"poll", "read", "clr"}]_vars

---------------------------------------------------------------------------
(* The path generator *)

Generated == pf_last.call = "generate" /\ pf_last.ok

PlateWells == {"A", "B", "C", "D", "E", "F"}
                \X {"1", "2", "3", "4", "5", "6", "7", "8"}

\* C15: a generated path, snake or raster, has exactly 48 points, and its
\* well labels are exactly {A..F} x {1..8}, each label on one point only.
C15_PathComplete ==
    Generated =>
        /\ Len(path_points) = 48
        /\ {path_points[i].well : i \in 1..Len(path_points)} = PlateWells
        /\ \A i, j \in 1..Len(path_points) :
              path_points[i].well = path_points[j].well => i = j

C15_Witness ==
    /\ Generated
    /\ pf_last.pat = "raster"
    /\ Len(path_points) = 48

NominalCorners ==
    [c \in Corners |->
        Corner(CASE c = "A1" -> Pos(0, 0, 0)
                 [] c = "A8" -> Pos(70, 0, 0)
                 [] c = "F1" -> Pos(0, 50, 0)
                 [] OTHER    -> Pos(70, 50, 0))]

WellPoint(x, y, z, row, col) ==
    [X |-> x, Y |-> y, Z |-> z, well |-> <<row, col>>]

\* C16: the point at visit index i = r*cols + k is the cell (r, c) with c = k
\* (raster, even snake rows) or c = cols-1-k (odd snake rows), carrying that
\* cell's label and coordinates; with the nominal corners the snake path has
\* point 0 = A1 (0,0,0), point 7 = A8 (70,0,0) and point 8 = B8 (70,10,0).
C16_VisitOrder ==
    Generated =>
        /\ Len(path_points) = ROWS * COLS
        /\ \A i \in 0..(Len(path_points) - 1) :
              LET r == i \div COLS
                  k == i % COLS
                  c == IF pf_last.pat = "snake" /\ r % 2 = 1
                       THEN COLS - 1 - k ELSE k
              IN  path_points[i + 1] =
                    WellPoint(corners["A1"].pos["X"] + c * XStep(corners),
                              corners["A1"].pos["Y"] + r * YStep(corners),
                              corners["A1"].pos["Z"],
                              ROW_LABELS[r + 1], COL_LABELS[c + 1])
        /\ (pf_last.pat = "snake" /\ corners = NominalCorners) =>
              /\ path_points[1] = WellPoint(0, 0, 0, "A", "1")
              /\ path_points[8] = WellPoint(70, 0, 0, "A", "8")
              /\ path_points[9] = WellPoint(70, 10, 0, "B", "8")

C16_Witness ==
    /\ Generated
    /\ pf_last.pat = "snake"
    /\ corners = NominalCorners
    /\ path_points[9].well = <<"B", "8">>

\* C17: a generation attempted with a corner unset fails: the stored path
\* stays as it was and holds no point, and nothing of the controller changes.
C17_IncompleteCalibrationFails ==
    [][(~ AllCaptured(corners) /\ pf_last'.call = "generate") =>
          /\ ~ pf_last'.ok
          /\ path_points' = path_points
          /\ path_points' = <<>>
          /\ gvars' = gvars]_vars

C17_Witness ==
    /\ pf_last.call = "generate"
    /\ ~ pf_last.ok
    /\ corners["A1"].set
    /\ ~ corners["F8"].set
    /\ path_points = <<>>

\* the integer square root of n, rounded down, found by bisection in lo..hi
RECURSIVE RootIn(_, _, _)
RootIn(n, lo, hi) ==
    IF lo >= hi THEN lo
    ELSE LET mid == (lo + hi + 1) \div 2
         IN  IF mid * mid <= n THEN RootIn(n, mid, hi)
                               ELSE RootIn(n, lo, mid - 1)

RootDown(n) == RootIn(n, 0, n)
RootUp(n) == IF RootDown(n) * RootDown(n) = n THEN RootDown(n)
                                              ELSE RootDown(n) + 1

\* the squared Euclidean distance between two points
Dist2(p, q) ==
    (p.X - q.X) * (p.X - q.X) + (p.Y - q.Y) * (p.Y - q.Y)
        + (p.Z - q.Z) * (p.Z - q.Z)

RECURSIVE SumOver(_, _, _)
SumOver(Root(_), path, i) ==
    IF i >= Len(path) THEN 0
    ELSE Root(Dist2(path[i], path[i + 1])) + SumOver(Root, path, i + 1)

\* bounds on the travel of a path: every leg rounded down, or rounded up
TravelAtLeast(path) == SumOver(RootDown, path, 1)
TravelAtMost(path) == SumOver(RootUp, path, 1)

\* C18: the snake path is never longer than the raster path of the same
\* corners: the snake travel rounded up leg by leg stays within the raster
\* travel rounded down leg by leg.
C18_SnakeNoLongerThanRaster ==
    Generated =>
        LET snake  == IF pf_last.pat = "snake" THEN path_points
                      ELSE GeneratedPath(corners, "snake")
            raster == IF pf_last.pat = "raster" THEN path_points
                      ELSE GeneratedPath(corners, "raster")
        IN  TravelAtMost(snake) <= TravelAtLeast(raster)

C18_Witness ==
    /\ Generated
    /\ pf_last.pat = "snake"
    /\ XStep(corners) # 0
    /\ YStep(corners) # 0
    /\ TravelAtMost(path_points) < TravelAtLeast(GeneratedPath(corners, "raster"))
---------------------------------------------------------------------------
(* The experiment runner *)

\* every visit run r began has had its barrier, its dwell, its capture and
\* its save
VisitsComplete(r) ==
    /\ Events(LogOf(r), "barrier") = Events(LogOf(r), "move")
    /\ Events(LogOf(r), "dwell") = Events(LogOf(r), "move")
    /\ Events(LogOf(r), "capture") = Events(LogOf(r), "move")
    /\ Events(LogOf(r), "save") = Events(LogOf(r), "move")

\* the run loop idles at its pause check
Idling(l) == ex[l].pc = "while" /\ is_running /\ is_paused

\* C19: pause takes effect between well visits only: whenever the run loop
\* is between visits or idling, every visit begun has completed (move,
\* barrier, dwell and capture, save), and while the loop idles paused it
\* commands no move, captures no frame and writes nothing to the controller.
C19_PauseBetweenVisits ==
    /\ [](\A l \in Loops :
            ex[l].pc \in {"while", "point"} => VisitsComplete(ex[l].run))
    /\ [][\A l \in Loops :
            (Idling(l) /\ is_paused') =>
               /\ LogOf(ex[l].run)' = LogOf(ex[l].run)
               /\ th'[LoopThread(l)] = th[LoopThread(l)]
               /\ fwq' = fwq \/ Len(fwq') < Len(fwq)]_vars

C19_Witness ==
    /\ Idling(1)
    /\ ex[1].pin
    /\ ex[1].idx = 2
    /\ Events(exlog, "save") = <<<<<<"A", "1">>, 0>>>>

\* the wells of the path, in path order
PathWells == [i \in 1..Len(ExperimentPath) |-> ExperimentPath[i].well]

\* the wells on which event e of run r happened under iteration number k,
\* in order
WellsOf(r, e, k) ==
    LET hit == SelectSeq(exlog, LAMBDA x : x.run = r /\ x.ev = e /\ x.k = k)
    IN  [i \in 1..Len(hit) |-> hit[i].well]

IsPrefix(a, b) == Len(a) <= Len(b) /\ a = SubSeq(b, 1, Len(a))

\* C20: under every iteration number k of a run the wells are moved to,
\* captured and saved once each in path order (at any time a prefix of the
\* path), the counter passes k only when all of them are saved, and each
\* increment is reported; pausing and resuming during the iteration changes
\* none of it.
C20_EachWellOncePerIteration ==
    /\ \A r \in 1..api.runs, k \in 0..MaxVisits :
          /\ IsPrefix(WellsOf(r, "move", k), PathWells)
          /\ IsPrefix(WellsOf(r, "capture", k), PathWells)
          /\ IsPrefix(WellsOf(r, "save", k), PathWells)
          /\ (r = api.runs /\ k < current_iteration)
                => WellsOf(r, "save", k) = PathWells
    /\ Events(LogOf(api.runs), "progress")
          = [i \in 1..current_iteration |-> <<NoWell, i>>]

\* the error callback invocations of run r
Errors(r) == Len(Events(LogOf(r), "error"))

\* C21: a run that has failed (move rejected, no frame captured, image not
\* written) has had the error callback invoked exactly once.
C21_ErrorReportedOnce ==
    \A l \in Loops : ex[l].cause # "none" => Errors(ex[l].run) = 1

\* run r has reported an error
Failed(r) == Errors(r) > 0

\* this step is the failure of a visit of loop l: its move is rejected or
\* its capture returns no frame
VisitFails(l) == ex[l].cause = "none" /\ ex'[l].cause \in {"move", "capture"}

\* C22: the step at which a well visit fails (move rejected, or no frame
\* captured) writes no image file and captures nothing, leaves the runner
\* not running and the thread out of its loop; the failed run moves to no
\* well, captures no frame and writes no file afterwards.
C22_FailedVisitEndsRun ==
    /\ [][\A l \in Loops :
            VisitFails(l) =>
               /\ Events(exlog', "save") = Events(exlog, "save")
               /\ Events(exlog', "capture") = Events(exlog, "capture")
               /\ Events(exlog', "move") = Events(exlog, "move")
               /\ ~ is_running'
               /\ ex'[l].pc = "exit"]_vars
    /\ [][\A r \in 1..MaxCalls : Failed(r) => LogOf(r)' = LogOf(r)]_vars

\* the capture at the second well returned no frame: the first well's file
\* is the only one
C22_Witness ==
    /\ ex[1].cause = "capture"
    /\ ex[1].pc = "exit"
    /\ ~ is_running
    /\ Events(LogOf(1), "move") = <<<<<<"A", "1">>, 0>>, <<<<"A", "2">>, 0>>>>
    /\ Events(LogOf(1), "save") = <<<<<<"A", "1">>, 0>>>>

\* this step of loop l captures a frame
Captures(l) ==
    Len(Events(LogOf(ex[l].run)', "capture"))
        > Len(Events(LogOf(ex[l].run), "capture"))

\* C23: the run loop fails fast and does not retry: a call of the
\* controller writes its command at most once, and a frame is captured only
\* when the last command of the visit, the M400 barrier, was sent and
\* acknowledged (a failed move or barrier ends the run before the capture).
C23_FailFastNoRetry ==
    /\ [](\A l \in Loops : Len(th[LoopThread(l)].written) <= 1)
    /\ [][\A l \in Loops :
            (ex[l].pc = "dwell" /\ Captures(l)) =>
               /\ th[LoopThread(l)].op = "barrier"
               /\ th[LoopThread(l)].outcome = "Acknowledged"]_vars

\* the steps of the visits of run r, in the order they happened
VisitSteps(r) ==
    SelectSeq(LogOf(r), LAMBDA x :
                x.ev \in {"move", "barrier", "dwell", "capture", "save"})

\* the step that comes before step e within a visit
StepBefore(e) ==
    CASE e = "barrier" -> "move"
      [] e = "dwell" -> "barrier"
      [] e = "capture" -> "dwell"
      [] e = "save" -> "capture"

\* within every visit of run r: move, barrier, dwell, capture, save
VisitsInOrder(r) ==
    \A i \in 1..Len(VisitSteps(r)) :
        VisitSteps(r)[i].ev # "move" =>
            /\ i > 1
            /\ VisitSteps(r)[i - 1].ev = StepBefore(VisitSteps(r)[i].ev)
            /\ VisitSteps(r)[i - 1].well = VisitSteps(r)[i].well
            /\ VisitSteps(r)[i - 1].k = VisitSteps(r)[i].k

\* C24: the steps of every visit happen in the order move, barrier, dwell,
\* capture, save, and a frame is captured only after the move of its visit
\* was acknowledged and the barrier of its visit has completed: M400 was
\* sent and the firmware has answered it.
C24_VisitOrder ==
    /\ [](\A r \in 1..MaxCalls : VisitsInOrder(r))
    /\ [][\A l \in Loops :
            Captures(l) =>
               /\ ex[l].pc = "dwell"
               /\ th[LoopThread(l)].cmd = Cmd("M400", Origin)
               /\ th[LoopThread(l)].written = <<Cmd("M400", Origin)>>
               /\ th[LoopThread(l)].outcome = "Acknowledged"]_vars

\* the order alone
VisitOrderHolds == \A r \in 1..MaxCalls : VisitsInOrder(r)

\* this step is a call of the public method name
Calls(name) == api'.n = api.n + 1 /\ api'.call = name

\* the runner is stopped: the last thing it told the status callback
Stopped == ~ is_running /\ status.text = "Experiment stopped"

\* C25: stop() on a runner that is already stopped changes nothing of its
\* state and invokes no callback: neither status nor progress nor error.
C25_StopIdempotent ==
    [][(Stopped /\ Calls("stop")) =>
          /\ UNCHANGED <<is_running, is_paused, current_iteration, start_time>>
          /\ status' = status
          /\ exlog' = exlog]_vars

\* this step of loop l commands the move of a visit
Moves(l) ==
    Len(Events(LogOf(ex[l].run)', "move"))
        > Len(Events(LogOf(ex[l].run), "move"))

\* C26: after stop() the run ends at the next boundary between visits: the
\* visit in progress may complete, and the loop that was running when stop()
\* was called moves to no further well.
C26_StopEndsRunAtBoundary ==
    [][\A l \in Loops : (Alive(l) /\ ex[l].halt) => ~ Moves(l)]_vars

\* this step is a start() that launches a run
Launches == Calls("start") /\ api'.runs = api.runs + 1

\* C27: once a run has ended (completed, stopped or failed), start() begins
\* a new run only if configure() was called since.
C27_RestartNeedsConfigure ==
    [][Launches => ~ api.stale]_vars

\* C28: start() on a running runner does nothing: no loop is launched and
\* is_running, start_time, current_iteration and the paused flag are as
\* before, as are the experiment threads and what the callbacks were told.
C28_StartWhileRunningNoOp ==
    [][(is_running /\ Calls("start")) =>
          /\ api'.runs = api.runs
          /\ UNCHANGED <<is_running, is_paused, start_time, current_iteration,
                         ex, status, exlog>>]_vars

\* start(), pause(), and a second start() after the clock has advanced: the
\* one run goes on, paused, with the start time of the first call
C28_Witness ==
    /\ api.call = "start"
    /\ api.n = 3
    /\ api.runs = 1
    /\ is_running
    /\ is_paused
    /\ start_time = 0
    /\ now > 0
    /\ Alive(1)

\* C29: whatever the order of start(), stop(), pause() and resume() and of
\* the steps of the loop, at most one experiment thread is inside a well
\* visit at any time.
C29_OneLoopVisits ==
    Cardinality({l \in Loops : InVisit(l)}) <= 1

\* this step of loop l is its check at the top of the while loop deciding
\* to execute an iteration
PassBegins(l) == ex[l].pc = "while" /\ ex'[l].pc = "point"

\* this step of loop l is a turn of the while loop that goes on or leaves
LoopTurns(l) == ex[l].pc = "while" /\ ex'[l].pc # "while"

\* the time since start() as line 217 computes it
Elapsed == now - start_time

\* C30 as stated: a pass over the path begins only while the runner is
\* running and the time elapsed since the start is strictly less than the
\* duration; once it is not, the loop begins no pass and exits.
C30_PassBeforeDuration ==
    /\ [][\A l \in Loops :
            PassBegins(l) => is_running /\ Elapsed < Duration]_vars
    /\ [][\A l \in Loops :
            (LoopTurns(l) /\ is_running /\ ~ (Elapsed < Duration)) =>
               ex'[l].pc = "exit" /\ ~ is_running']_vars

\* C30, amended: a pass over the path begins only while the runner is
\* running and the time elapsed since the start is not greater than the
\* duration; once it is greater, the loop begins no pass and exits, leaving
\* the runner not running.
C30_PassWithinDuration ==
    /\ [][\A l \in Loops :
            PassBegins(l) => is_running /\ Elapsed <= Duration]_vars
    /\ [][\A l \in Loops :
            (LoopTurns(l) /\ is_running /\ Elapsed > Duration) =>
               ex'[l].pc = "exit" /\ ~ is_running']_vars

\* a run that nobody stopped and nothing failed has completed a pass and
\* left its loop: its duration was exceeded
C30_Witness ==
    /\ api.n = 1
    /\ ex[1].pc = "exit"
    /\ ex[1].cause = "none"
    /\ current_iteration >= 1
    /\ Elapsed > Duration
    /\ ~ is_running

---------------------------------------------------------------------------
(* Claims on configure *)

\* a step that is one call of configure
ConfigureStep == api'.call = "configure" /\ api'.n = api.n + 1

\* the parent directory of a save folder is missing: a folder given by a bare
\* name lies in the working directory, which exists
ParentMissing(folder) ==
    Len(folder) > 1 /\ ~ Exists(Dirname(folder))

\* the first constraint that a configuration violates, in the order path,
\* pause_time, duration, parent directory, hardware
FirstViolated(c, hw) ==
    IF c.path_points = <<>> THEN "path"
    ELSE IF c.pause_time <= 0 THEN "pause_time"
    ELSE IF c.duration <= 0 THEN "duration"
    ELSE IF ParentMissing(c.save_folder) THEN "parent"
    ELSE IF ~ hw THEN "hardware"
    ELSE "none"

\* the constraint that an error message names
Cause(message) ==
    CASE message = "No path points defined" -> "path"
      [] message = "Pause time must be positive" -> "pause_time"
      [] message = "Duration must be positive" -> "duration"
      [] message = "Save directory parent does not exist" -> "parent"
      [] message = "Hardware not properly initialized" -> "hardware"
      [] OTHER -> "none"

\* C31: a configure whose configuration violates a constraint raises, the
\* first cause it reports is the first constraint violated in the order path,
\* pause_time, duration, parent directory, hardware, it writes no
\* configuration record and it starts no run.
C31_ConfigureFailsFast ==
    [][ConfigureStep /\ FirstViolated(cfg', hardware) # "none" =>
          /\ conf_last'.raised
          /\ Cause(conf_last'.reports[1][2]) = FirstViolated(cfg', hardware)
          /\ disk' = disk
          /\ is_running' = is_running
          /\ api'.runs = api.runs
          /\ ex' = ex]_vars

\* C38: a configure that fails validation leaves path, pause_time, duration,
\* save_folder and file_prefix as they were.
C38_FailedConfigureKeepsParameters ==
    [][ConfigureStep /\ conf_last'.raised => cfg' = cfg]_vars

---------------------------------------------------------------------------
(* Claims on the progress reports *)

\* a step in which the progress callback is called (lines 295-296)
ProgressStep ==
    /\ Len(exlog') = Len(exlog) + 1
    /\ exlog'[Len(exlog')].ev = "progress"

\* C39: every call progress(current, total) has 0 < current <= total, and
\* total changes only when start() computes it.
C39_ProgressWithinTotal ==
    /\ [][ProgressStep => /\ 0 < current_iteration'
                          /\ current_iteration' <= total_iterations']_vars
    /\ [][total_iterations' # total_iterations =>
              /\ api'.call = "start"
              /\ total_iterations' = TotalIterations(cfg')]_vars

---------------------------------------------------------------------------
(* Claims on the experiment window *)

\* C32: the configuration record is not written while a run is in progress,
\* paused or not: whatever is done to a running runner, the resume through
\* the window's Start button included, leaves the record as it was written
\* before the run started.
C32_RecordWrittenOncePerRun ==
    [][is_running => disk' = disk]_vars


\* a step in which start_experiment runs to its end (lines 233-236)
StartCompletes ==
    gui.start /\ gui'.n = gui.n + 1 /\ gui'.is_running

\* C37: when start_experiment has completed, the runner is running: its
\* is_running is set and a thread is in _experiment_loop that has not been
\* told to stop.
C37_StartedWindowMeansRunning ==
    [][StartCompletes =>
          /\ is_running'
          /\ \E l \in Loops : ex'[l].pc \notin {"none", "exit"}
                              /\ ~ ex'[l].halt]_vars

---------------------------------------------------------------------------
(* Claims on the listener and the waiting sender *)

\* last_response holds the "ok" of the command that thread t has in flight,
\* within its budget, and t has not read it yet (line 126)
OkUnexamined(t) ==
    /\ th[t].pc = "poll"
    /\ th[t].elapsed < Timeout(th[t].cmd)
    /\ waiting_for_response
    /\ last_response.some
    /\ last_response.re = t
    /\ HasOk(last_response.txt)

\* C33: while the "ok" of the command in flight is in last_response and the
\* waiting sender has not yet examined it, a step of the listener storing a
\* later line leaves it there (so that the sender finds it and returns true).
C33_OkNotOverwritten ==
    [][\A t \in Threads :
          (OkUnexamined(t) /\ lpc = "got" /\ lpc' = "idle")
              => last_response' = last_response]_vars

---------------------------------------------------------------------------
(* Claims on close_connection *)

\* C35: the listener never reads or dereferences the handle that
\* close_connection has closed and cleared (it does not end with an exception
\* raised by the handle), and a close_connection on a controller already
\* closed changes nothing.
C35_CloseRaceFree ==
    /\ [](lpc # "raised")
    /\ [][printer_on_serial = "none" => /\ printer_on_serial' = "none"
                                        /\ connected' = connected]_vars

---------------------------------------------------------------------------
(* Claims on move_xyz *)

\* send_gcode has returned true to move_xyz in thread t (line 159)
MoveAcked(t) == th[t].step = "g1" /\ th[t].pc = "ret" /\ th[t].ret

\* C36: after an acknowledged move, move_xyz returns: the loop on is_moving
\* ends whatever the firmware does afterwards, also when it never answers a
\* position query.
C36_AckedMoveReturns ==
    MoveAcked("gui") ~> (th["gui"].step = "done" /\ th["gui"].opret = "True")

\* an acknowledged move has returned, after a chatter line was passed over
C36_Witness ==
    /\ th["gui"].op = "move"
    /\ th["gui"].step = "done"
    /\ th["gui"].opret = "True"
    /\ current_position = Clamp(th["gui"].req)
    /\ fwq = <<>>

---------------------------------------------------------------------------
(* Claims on the motion settings *)

\* the call of set_acceleration or set_jerk in thread t, with the command
\* code that belongs to it and the value stored by it
RateCall(t, op, code, v) ==
    th[t].op = op =>
        /\ th[t].step # "done" => th[t].cmd = Cmd(code, Pos(v, v, v))
        /\ th[t].written \in {<<>>, <<Cmd(code, Pos(v, v, v))>>}
        /\ th[t].step = "done" =>
              /\ th[t].opret = "True" <=> th[t].outcome = "Acknowledged"
              /\ th[t].opret = "False" <=> th[t].outcome # "Acknowledged"
              /\ th[t].outcome = "Acknowledged" => th[t].written # <<>>

\* C40: set_acceleration and set_jerk store the value, send M201 / M205 with
\* it and return what send_gcode returned for that command; set_feedrate
\* stores the value and sends nothing; every move command carries the
\* feedrate stored at the time.
C40_SettersAndFeedrate ==
    /\ RateCall("gui", "set_acceleration", "M201", settings.acceleration)
    /\ RateCall("gui", "set_jerk", "M205", settings.jerk)
    /\ th["gui"].op = "set_feedrate" =>
          th["gui"].written = <<>> /\ th["gui"].step = "done"
    /\ th["gui"].op = "move" =>
          /\ th["gui"].step # "done" => th["gui"].cmd.feed = settings.feedrate
          /\ \A i \in 1..Len(th["gui"].written) :
                /\ th["gui"].written[i].code = "G1"
                /\ th["gui"].written[i].feed = settings.feedrate

\* a move acknowledged at a feedrate that set_feedrate stored, after
\* set_acceleration and set_jerk have stored values of their own
C40_Witness ==
    /\ th["gui"].op = "move"
    /\ th["gui"].opret = "True"
    /\ Len(th["gui"].written) = 1
    /\ th["gui"].written[1].feed = 1000
    /\ settings.acceleration = 9
    /\ settings.jerk = 9

---------------------------------------------------------------------------
(* Claims on the grid of the generated path *)

\* the label of a corner well
CornerWell(c) ==
    CASE c = "A1" -> <<"A", "1">>
      [] c = "A8" -> <<"A", "8">>
      [] c = "F1" -> <<"F", "1">>
      [] OTHER    -> <<"F", "8">>

\* C34: in a generated path the points labelled A1, A8, F1 and F8 have the X
\* and Y of the corners captured under these names, whatever the four corners
\* are, and every point has the Z of corner A1.
C34_GridMeetsCorners ==
    Generated =>
        \A i \in 1..Len(path_points) :
            /\ path_points[i].Z = corners["A1"].pos["Z"]
            /\ \A c \in Corners :
                  path_points[i].well = CornerWell(c) =>
                      /\ path_points[i].X = corners[c].pos["X"]
                      /\ path_points[i].Y = corners[c].pos["Y"]
====
